---- MODULE Spec2Model ----
(***************************************************************************)
(* The connection core of the Cap'n Proto RPC vat (rpc.Conn): its tables,  *)
(* the send and receive goroutines, the goroutines forked by the handlers  *)
(* and shutdown.  A block of code that runs under Conn.lk is one step; the *)
(* code between two such blocks (callbacks, transport I/O, waits) is a     *)
(* step of its own, so every interleaving the mutex allows is explored.    *)
(***************************************************************************)
EXTENDS Integers, Sequences, FiniteSets, TLC

\* ---------------------------------------------------------------- bounds
MaxQ == 2        \* calls of Conn.Bootstrap the application makes
MaxIn == 2       \* messages the peer sends
NumClose == 1    \* calls of Conn.Close the application makes
MaxInA == 3      \* messages the peer sends in the answer-side session
MaxInE == 3      \* messages the peer sends in the embargo session
MaxBootE == 1    \* calls of Conn.Bootstrap in the embargo session
MaxCalls == 1    \* calls the application makes through an embargoed capability
MaxA == 3        \* answer ids the peer uses
MaxRefs == 2     \* largest reference count a Release message carries
MaxInB == 2      \* messages the peer sends in the session it aborts
MaxInS == 3      \* messages the peer sends in the session that is shut down
MaxInV == 4      \* messages the peer sends in the session that breaks the tables
MaxInC == 2      \* messages the peer sends in the session with capabilities in payloads
MaxInL == 4      \* messages the peer sends in the session with pipelined calls
MaxInU == 3      \* messages the peer sends in the session with calls it is not answered
MaxInF == 2      \* messages the peer sends in the session with pipelined questions
MaxInR == 2      \* Disembargoes the peer sends in the session where results are parsed
MaxReturns == 1  \* results parsed in that session
MaxCalled == 2   \* transforms in the called list of a question
MaxCaps == 2     \* slots in the cap table of a Return
MaxInD == 3      \* messages the peer sends in the session with senderLoopback Disembargoes
MaxInT == 4      \* messages the peer sends in the session of Bootstraps and Finishes
MaxInN == 2      \* messages the peer sends in the session with messages that are not handled
MaxInJ == 1      \* messages the peer sends in the session where jobs are followed
MaxJobs == 3     \* jobs followed in that session
MaxInW == 2      \* messages the peer sends in the session that is closed
MaxInP == 2      \* messages the peer sends in the session with unreadable messages
MaxSrvCalls == 3 \* calls started on the Server

QObj == 1..MaxQ              \* question objects, in order of creation
QIds == 0..(MaxQ - 1)        \* question ids the allocator can hand out
Callers == 0..NumClose       \* callers of shutdown: 0 is NewConn's monitor
SCalls == 1..MaxSrvCalls     \* the calls started on the Server
AIds == 0..(MaxA - 1)        \* answer ids the peer uses
EIds == 0..1                 \* export ids the peer names
EObj == 1..MaxInA            \* export entries, in order of creation
MObj == 1..MaxQ              \* embargoes, in order of creation
MIds == 0..(MaxQ - 1)        \* embargo ids
Paths == 1..2                \* the transforms a question may have been called on
IIds == 0..0                 \* import ids the peer names            \* export entries, in order of creation

VARIABLES
    closing,          \* c.lk.closing
    bgctxDone,        \* c.bgctx is canceled
    gErr,             \* first error returned to the errgroup: none, canceled, fail or
                      \* one of Violations
    tasks,            \* c.tasks (sync.WaitGroup counter)
    closed,           \* c.closed is closed (Done fired)
    transportClosed,  \* c.transport.Close() was called
    readyForClose,    \* shutdown's readyForClose channel is closed
    closerPc,         \* the goroutine shutdown forks: none/wait/done
    shPc,             \* position of each caller of shutdown
    rl,               \* the releaseList of the caller running release
    steps,            \* how often each teardown step of shutdown has run
    sendq,            \* the send queue (sendTx .. sendRx)
    nextSeq,          \* number of jobs enqueued so far
    sendPc,           \* the send goroutine: idle/sent/done
    sendCur,          \* the job the send goroutine holds, and its outcome
    wire,             \* what has been written to the transport, in order
    incoming,         \* the message the reader goroutine offers on its channel
    recvPc,           \* the receive goroutine: idle/done
    nIn,              \* number of messages taken from the transport
    questions,        \* c.lk.questions: id -> question object (0 is nil)
    questionID,       \* c.lk.questionID (idgen)
    q,                \* the question objects
    ev,               \* counts of the callbacks invoked so far
    bootstrap,        \* c.bootstrap is a valid client
    answers,          \* c.lk.answers: id -> answer (st "nil" is no entry)
    destroyed,        \* the flags each answer had when it left the table
    exports,          \* c.lk.exports: id -> export entry (0 is nil)
    exportID,         \* c.lk.exportID (idgen)
    expent,           \* the export entries: wireRefs, Release calls on the client
    cur,              \* the message the receive goroutine is handling
    hold,             \* the receive goroutine's releaseList: export entries
    nTaken,           \* messages receive has taken from the reader
    nHandled,         \* messages whose handler has returned
    delivered,        \* the Calls handed to RecvCall, in order
    embargoes,        \* c.lk.embargoes: id -> embargo (0 is nil)
    embargoID,        \* c.lk.embargoID (idgen)
    emb,              \* the embargoes: the wrapper clients and their queues
    imports,          \* c.lk.imports: id -> references held locally
    reported,         \* the errors handed to c.er.ReportError
    underLock,        \* the callbacks that were run while c.lk was held
    jobs,             \* per job enqueued: what asyncSend.Send/Abort did with it
    retMsgs,          \* per Return made by newReturn: calls of its msgReleaser.Decr
    msgReleases,      \* the inbound messages whose release ran in receive or in a
                      \* handler, by seq
    pr,               \* the last Return results parsed on their own, and what came of it
    srv               \* a server.Server: its mutex, its WaitGroup, its calls, Close

\* what shutdown works on, and the Server, which no step of the connection
\* touches
shutVars == <<closing, closed, transportClosed, readyForClose, closerPc, shPc, rl, steps,
             bootstrap, srv>>
sendVars == <<sendq, nextSeq, sendPc, sendCur, wire>>
recvVars == <<incoming, recvPc, nIn, cur, hold, nTaken, nHandled>>
questVars == <<questions, questionID, q>>
ansVars == <<answers, destroyed, exports, exportID, expent, delivered>>
embVars == <<embargoes, embargoID, emb, imports>>
obsVars == <<reported, underLock, jobs, retMsgs, msgReleases, pr>>
tblVars == <<questVars, ansVars, embVars, obsVars>>
connVars == <<closing, bgctxDone, gErr, tasks, closed, transportClosed, readyForClose,
              closerPc, shPc, rl, steps, sendq, nextSeq, sendPc, sendCur, wire,
              incoming, recvPc, nIn, questions, questionID, q, ev, bootstrap, answers,
              destroyed, exports, exportID, expent, cur, hold, nTaken, nHandled,
              delivered, embargoes, embargoID, emb, imports, reported, underLock, jobs,
              retMsgs, msgReleases, pr>>
vars == <<connVars, srv>>

\* ------------------------------------------------------------- id allocator
\* idgen: ids grow monotonically, removed ids are reused from a free list.
idgenNext(g) == IF g.free # <<>> THEN g.free[Len(g.free)] ELSE g.next

idgenTake(g) ==
    IF g.free # <<>> THEN [g EXCEPT !.free = SubSeq(@, 1, Len(@) - 1)]
    ELSE [g EXCEPT !.next = @ + 1]

idgenRemove(g, id) == [g EXCEPT !.free = Append(@, id)]

\* ids the allocator has handed out and not got back
idgenLive(g) == {i \in 0..(g.next - 1) : \A k \in 1..Len(g.free) : g.free[k] # i}

\* ------------------------------------------------------------------- Init
\* A call started on the Server: where Server.start is, how far the goroutine
\* that runs the method has got, whether the method has called Ack, whether
\* the caller's context is canceled, and its turn in taking srv.mu.
NoCall == [pc |-> "idle", impl |-> "none", acked |-> FALSE, ctxDone |-> FALSE, order |-> 0]

\* server.New: mutex free, WaitGroup at zero, Close not called.
New == [mu |-> 0, calls |-> 0, nLocked |-> 0, closePc |-> "idle", closerCalls |-> 0,
        call |-> [i \in SCalls |-> NoCall]]

NoQuestion ==
    [st |-> "none", id |-> 0, finished |-> FALSE, finishSent |-> FALSE,
     finishMsgSend |-> FALSE, p |-> "pending",
     ret |-> "none", wait |-> "none", hc |-> "none", gotReturn |-> FALSE,
     freed |-> 0, called |-> FALSE, calledAtReturn |-> FALSE, cap |-> "none",
     wrapper |-> 0, disembargo |-> FALSE, bootstrapPromise |-> FALSE,
     rejectErr |-> "none", rej |-> "none", settled |-> 0,
     release |-> FALSE, released |-> 0, msg |-> 0]

NoJob == [kind |-> "none", q |-> 0, seq |-> 0]

NoMsg ==
    [type |-> "none", id |-> 0, exc |-> FALSE, releaseResultCaps |-> FALSE,
     n |-> 0, target |-> 0, cap |-> "none", seq |-> 0, perr |-> "none",
     cap2 |-> "none", promised |-> FALSE, sendResultsTo |-> "caller", tail |-> 0,
     context |-> "receiverLoopback", at |-> 0]

\* An answer: flags, whether cancel and msgReleaser are set, whether its
\* results hold the exported bootstrap capability, whether the call runs.
NoAnswer ==
    [st |-> "nil", returnSent |-> FALSE, finishReceived |-> FALSE,
     releaseResultCaps |-> FALSE, cancel |-> FALSE, msgReleaser |-> FALSE,
     caps |-> {}, running |-> FALSE, msg |-> 0, err |-> FALSE, pcall |-> FALSE,
     pcalls |-> 0, results |-> "none"]

NoExport == [st |-> "none", id |-> 0, wireRefs |-> 0, released |-> 0]

\* An embargo: its wrapper client queues the calls made through it until
\* lift, which delivers them.
NoEmbargo == [st |-> "none", id |-> 0, queued |-> 0, delivered |-> 0, lifts |-> 0,
              by |-> "none"]

\* What has happened to a job: calls of its send, of Abort, of its onSent and
\* of its release, and the error onSent was given.
NoJobLog == [kind |-> "none", sends |-> 0, aborts |-> 0, onSents |-> 0, err |-> "none", releases |-> 0]

\* parsedReturn, with what parseReturn was given: the called transforms, the
\* slot of the cap table each transform leads to (0: no interface pointer),
\* the clients recvPayload put in the table; the clients afterwards, the
\* embargo wrapping each slot (0: none) and the senderLoopbacks.
NoParse == [n |-> 0, called |-> <<>>, at |-> [p \in Paths |-> 0], mtab |-> <<>>,
            out |-> <<>>, wrappers |-> <<>>, disembargoes |-> <<>>]

EmptyRl == [questions |-> {}, exports |-> {}, embargoes |-> {}, answers |-> {},
            bootstrap |-> FALSE, msgs |-> {}]

Init ==
    /\ closing = FALSE
    /\ bgctxDone = FALSE
    /\ gErr = "none"
    /\ tasks = 2
    /\ closed = FALSE
    /\ transportClosed = FALSE
    /\ readyForClose = FALSE
    /\ closerPc = "none"
    /\ shPc = [c \in Callers |-> "idle"]
    /\ rl = EmptyRl
    /\ steps = [s \in {"cancel", "drain", "release", "abort", "close", "done"} |-> 0]
    /\ sendq = <<>>
    /\ nextSeq = 0
    /\ sendPc = "idle"
    /\ sendCur = [job |-> NoJob, ok |-> FALSE]
    /\ wire = <<>>
    /\ incoming = NoMsg
    /\ recvPc = "idle"
    /\ nIn = 0
    /\ questions = [i \in QIds |-> 0]
    /\ questionID = [next |-> 0, free |-> <<>>]
    /\ q = [i \in QObj |-> NoQuestion]
    /\ ev = [onSent |-> 0, resolve |-> 0, cancel |-> 0]
    /\ bootstrap \in BOOLEAN
    /\ answers = [a \in AIds |-> NoAnswer]
    /\ destroyed = {}
    /\ exports = [e \in EIds |-> 0]
    /\ exportID = [next |-> 0, free |-> <<>>]
    /\ expent = [e \in EObj |-> NoExport]
    /\ cur = NoMsg
    /\ hold = EmptyRl
    /\ nTaken = 0
    /\ nHandled = 0
    /\ delivered = <<>>
    /\ embargoes = [m \in MIds |-> 0]
    /\ embargoID = [next |-> 0, free |-> <<>>]
    /\ emb = [m \in MObj |-> NoEmbargo]
    /\ imports = [i \in IIds |-> 0]
    /\ reported = {}
    /\ underLock = {}
    /\ jobs = <<>>
    /\ retMsgs = <<>>
    /\ msgReleases = <<>>
    /\ pr = NoParse
    /\ srv = New

\* ------------------------------------------------------------ send queue
\* The state the callbacks of the connection work on.
K == [q |-> q, questions |-> questions, questionID |-> questionID,
      tasks |-> tasks, ev |-> ev, sendq |-> sendq, nextSeq |-> nextSeq,
      answers |-> answers, destroyed |-> destroyed, exports |-> exports,
      exportID |-> exportID, expent |-> expent, delivered |-> delivered,
      embargoes |-> embargoes, embargoID |-> embargoID, emb |-> emb,
      imports |-> imports, reported |-> reported, underLock |-> underLock,
      jobs |-> jobs, retMsgs |-> retMsgs, msgReleases |-> msgReleases,
      pr |-> pr]

Commit(k) ==
    /\ q' = k.q
    /\ questions' = k.questions
    /\ questionID' = k.questionID
    /\ tasks' = k.tasks
    /\ ev' = k.ev
    /\ sendq' = k.sendq
    /\ nextSeq' = k.nextSeq
    /\ answers' = k.answers
    /\ destroyed' = k.destroyed
    /\ exports' = k.exports
    /\ exportID' = k.exportID
    /\ expent' = k.expent
    /\ delivered' = k.delivered
    /\ embargoes' = k.embargoes
    /\ embargoID' = k.embargoID
    /\ emb' = k.emb
    /\ imports' = k.imports
    /\ reported' = k.reported
    /\ underLock' = k.underLock
    /\ jobs' = k.jobs
    /\ retMsgs' = k.retMsgs
    /\ msgReleases' = k.msgReleases
    /\ pr' = k.pr

\* The SPSC queue: Tx.Send puts a job at the tail, Rx.Recv takes the head.
sendTxSend(queue, job) == Append(queue, job)

sendRxRecv(queue) == Head(queue)

sendMessageFront(k, kind, qi) ==
    [k EXCEPT !.sendq = <<[kind |-> kind, q |-> qi, seq |-> k.nextSeq + 1]>> \o @,
              !.nextSeq = @ + 1,
              !.jobs = Append(@, [NoJobLog EXCEPT !.kind = kind])]

\* sendMessage: build the message and enqueue the job on c.lk.sendTx.
sendMessage(k, kind, qi) ==
    [k EXCEPT !.sendq = sendTxSend(@, [kind |-> kind, q |-> qi, seq |-> k.nextSeq + 1]),
              !.nextSeq = @ + 1,
              !.jobs = Append(@, [NoJobLog EXCEPT !.kind = kind])]

\* c.lk.questionID.remove(q.id) for the question object i.
removeID(k, i) ==
    [k EXCEPT !.questionID = idgenRemove(@, k.q[i].id), !.q[i].freed = @ + 1]

\* q.p.Reject(err) or q.p.Resolve: the promise of question i is settled.
settle(k, i, p, err) ==
    [k EXCEPT !.q[i].p = p, !.q[i].rej = err, !.q[i].settled = @ + 1,
              !.ev.resolve = @ + 1]

\* Bootstrap's onSent; err is "nil", "failed" or "disconnected".
onSentBootstrap(k, job, err) ==
    IF err = "nil"
    THEN [k EXCEPT !.tasks = @ + 1, !.q[job.q].hc = "wait"]
    ELSE removeID(settle([k EXCEPT !.questions[k.q[job.q].id] = 0],
                         job.q, "rejected", err), job.q)

\* onSent of the Finish that handleReturn's goroutine sends.
onSentFinish(k, job, err) ==
    IF err = "nil"
    THEN removeID([k EXCEPT !.q[job.q].finishMsgSend = TRUE,
                            !.q[job.q].finishSent = TRUE], job.q)
    ELSE [k EXCEPT !.q[job.q].finishMsgSend = TRUE]

\* onSent of the Finish that the question's cancel path sends.
onSentCancelFinish(k, job, err) ==
    settle([k EXCEPT !.q[job.q].finishSent = (@ \/ err = "nil"),
                     !.q[job.q].finishMsgSend = TRUE],
           job.q, "rejected", k.q[job.q].rejectErr)

\* release(), the in.Release of the message m that receive took
inRelease(k, m) == [k EXCEPT !.msgReleases = Append(@, m.seq)]

\* c.er.ReportError(err): what failed, and the kind of message it was about.
ReportError(k, what, type) ==
    [k EXCEPT !.reported = @ \cup {[what |-> what, type |-> type]}]

\* sendMessage with the message that build has filled in.
sendMessageBuild(k, job) ==
    [k EXCEPT !.sendq = sendTxSend(@, [job EXCEPT !.seq = k.nextSeq + 1]),
              !.nextSeq = @ + 1,
              !.jobs = Append(@, [NoJobLog EXCEPT !.kind = job.kind])]

hasOnSent(job) ==
    job.kind \in {"bootstrap", "call", "finish", "cancelFinish", "disembargo",
                  "unimplementedCall", "unimplementedDisembargo"}

onSent(k, job, err) ==
    LET k1 == [k EXCEPT !.ev.onSent = @ + 1] IN
    CASE job.kind = "bootstrap" -> onSentBootstrap(k1, job, err)
      [] job.kind = "call" -> onSentBootstrap(k1, job, err)
      [] job.kind = "finish" -> onSentFinish(k1, job, err)
      [] job.kind = "cancelFinish" -> onSentCancelFinish(k1, job, err)
      [] job.kind = "disembargo" ->
            IF job.context = "receiverLoopback" THEN inRelease(k1, [seq |-> job.msg]) ELSE k1
      [] job.kind = "unimplementedDisembargo" ->
            inRelease(IF err = "nil" THEN k1
                      ELSE ReportError(k1, "send unimplemented", "disembargo"),
                      [seq |-> job.msg])
      [] job.kind = "unimplementedCall" ->
            IF err = "nil" THEN k1 ELSE ReportError(k1, "send unimplemented", "call")
      [] OTHER -> k

\* The context a job was built with is canceled: every job but the
\* application's Bootstrap and calls is built with c.bgctx.
jobCtxErr(job) == job.kind \notin {"bootstrap", "call"} /\ bgctxDone

\* The message of the job could not be allocated: its send returns the error.
jobUnbuilt(job) == job.kind = "unimplemented" /\ ~job.built

\* an Abort that forgets the callback
asyncSendAbortSilent(k, job) ==
    [k EXCEPT !.jobs[job.seq].aborts = @ + 1, !.jobs[job.seq].releases = @ + 1]

\* asyncSend.Send after as.send() returned ok: onSent, if there is one, gets
\* the outcome; the deferred release runs last.
asyncSendSend(k, job, ok) ==
    [onSent(k, job, IF ok THEN "nil" ELSE "failed") EXCEPT
        !.jobs[job.seq].onSents = IF hasOnSent(job) THEN @ + 1 ELSE @,
        !.jobs[job.seq].err = IF hasOnSent(job) THEN (IF ok THEN "nil" ELSE "failed") ELSE @,
        !.jobs[job.seq].releases = @ + 1]

\* asyncSend.Abort: onSent, if there is one, gets a disconnected error; the
\* deferred release runs last; as.send is not called.
asyncSendAbort(k, job) ==
    [onSent(k, job, "disconnected") EXCEPT
        !.jobs[job.seq].aborts = @ + 1,
        !.jobs[job.seq].onSents = IF hasOnSent(job) THEN @ + 1 ELSE @,
        !.jobs[job.seq].err = IF hasOnSent(job) THEN "disconnected" ELSE @,
        !.jobs[job.seq].releases = @ + 1]

\* A background task returns err: tasks.Done, and the errgroup records the
\* first error and cancels the group's context, which is c.bgctx.
taskExit(err) ==
    /\ gErr' = IF gErr = "none" THEN err ELSE gErr
    /\ bgctxDone' = TRUE

\* Conn.send: take the next job, or stop once c.bgctx is canceled.
sendTake ==
    /\ sendPc = "idle"
    /\ sendq # <<>>
    /\ LET job == sendRxRecv(sendq) IN
       /\ sendq' = Tail(sendq)
       /\ \E io \in BOOLEAN :
            LET ok == io /\ ~jobCtxErr(job) /\ ~transportClosed /\ ~jobUnbuilt(job) IN
            /\ sendCur' = [job |-> job, ok |-> ok]
            /\ wire' = IF ok THEN Append(wire, job) ELSE wire
       /\ jobs' = [jobs EXCEPT ![job.seq].sends = @ + 1]
       /\ sendPc' = "sent"
    /\ UNCHANGED <<shutVars, recvVars, questVars, ansVars, embVars, reported, underLock, retMsgs,
                   msgReleases, pr,
                   bgctxDone, gErr, tasks, nextSeq, ev>>

\* asyncSend.Send after send(): onSent, then release.
sendOnSent ==
    /\ sendPc = "sent"
    /\ Commit(asyncSendSend(K, sendCur.job, sendCur.ok))
    /\ sendPc' = "idle"
    /\ sendCur' = [job |-> NoJob, ok |-> FALSE]
    /\ UNCHANGED <<shutVars, recvVars, bgctxDone, gErr, wire>>

sendStop ==
    /\ sendPc = "idle"
    /\ bgctxDone
    /\ sendPc' = "done"
    /\ tasks' = tasks - 1
    /\ taskExit("canceled")
    /\ UNCHANGED <<shutVars, recvVars, tblVars, sendq, nextSeq, sendCur, wire, ev>>

\* ------------------------------------------------------------ application
\* newQuestion: take an id from the allocator and enter the question.
newQuestion(k, i) ==
    LET id == idgenNext(k.questionID) IN
    [k EXCEPT !.questionID = idgenTake(@),
              !.questions[id] = i,
              !.q[i] = [NoQuestion EXCEPT !.st = "live", !.id = id]]

startTaskAlways == TRUE

\* startTask: c.tasks may be incremented while c.bgctx is not canceled.
startTask == ~bgctxDone

\* Conn.Bootstrap, one lock region: the task it starts is done on return.
\* The application calls it at most max times.
Bootstrap(max) ==
    \E i \in QObj :
       /\ q[i].st = "none"
       /\ \A j \in QObj : j < i => q[j].st # "none"
       /\ Cardinality({j \in QObj : q[j].bootstrapPromise}) < max
       /\ IF startTask
          THEN Commit(sendMessage(
                  [newQuestion(K, i) EXCEPT !.q[i].bootstrapPromise = TRUE],
                  "bootstrap", i))
          ELSE Commit([K EXCEPT !.q[i].st = "errclient"])
       /\ UNCHANGED <<shutVars, recvVars, sendPc, sendCur, wire, bgctxDone, gErr>>

\* question.PipelineSend: a call on the promised result of question i,
\* whose transform is marked as called, is sent as a new question.
PipelineSend ==
    \E i, j \in QObj :
       /\ q[i].st = "live"
       /\ q[i].p = "pending"
       /\ q[j].st = "none"
       /\ \A l \in QObj : l < j => q[l].st # "none"
       /\ IF startTask
          THEN Commit(sendMessage(newQuestion([K EXCEPT !.q[i].called = TRUE], j),
                                  "call", j))
          ELSE Commit([K EXCEPT !.q[j].st = "errclient"])
       /\ UNCHANGED <<shutVars, recvVars, sendPc, sendCur, wire, bgctxDone, gErr>>

\* A call the application makes through the wrapper client of an embargo,
\* once the promise has resolved to it.
wrapperCall ==
    \E m \in MObj, i \in QObj :
       /\ q[i].wrapper = m
       /\ q[i].p = "resolved"
       /\ emb[m].queued + emb[m].delivered < MaxCalls
       /\ Commit([K EXCEPT !.emb[m] = IF @.st = "embargoed"
                                      THEN [@ EXCEPT !.queued = @ + 1]
                                      ELSE [@ EXCEPT !.delivered = @ + 1]])
       /\ UNCHANGED <<shutVars, recvVars, sendPc, sendCur, wire, bgctxDone, gErr>>

\* question.handleCancel, the task Bootstrap's onSent starts: it returns when
\* the promise is resolved; when the caller's context is canceled (the
\* application releases the client Bootstrap returned, which it may do at
\* any time) or c.bgctx is canceled, it flags the question finished and sends
\* a Finish, unless a Return has flagged it already.
handleCancel(appCancels) ==
    \E i \in QObj :
       /\ q[i].hc = "wait"
       /\ \/ /\ q[i].p # "pending"
             /\ Commit([K EXCEPT !.q[i].hc = "done", !.tasks = @ - 1])
          \/ \E done \in {"ctx", "bgctx"} :
                /\ done = "ctx" => TRUE \in appCancels
                /\ done = "bgctx" => bgctxDone
                /\ IF q[i].finished
                   THEN Commit([K EXCEPT !.q[i].hc = "done", !.tasks = @ - 1])
                   ELSE Commit(sendMessage(
                           [K EXCEPT !.q[i].hc = "done", !.tasks = @ - 1,
                                     !.q[i].finished = TRUE,
                                     !.q[i].rejectErr = IF done = "ctx" THEN "canceled"
                                                        ELSE "disconnected"],
                           "cancelFinish", i))
       /\ UNCHANGED <<shutVars, recvVars, sendPc, sendCur, wire, bgctxDone, gErr>>

\* ------------------------------------------------------------ receive
ReturnMsgs == {[NoMsg EXCEPT !.type = "return", !.id = id, !.exc = x] :
                  id \in QIds, x \in BOOLEAN}

\* reader: the next message of the transport is offered to receive.
reader(m, max) ==
    /\ incoming = NoMsg
    /\ ~transportClosed
    /\ nIn < max
    /\ incoming' = [m EXCEPT !.seq = nIn + 1]
    /\ nIn' = nIn + 1
    /\ UNCHANGED <<shutVars, sendVars, tblVars, recvPc, cur, hold, nTaken, nHandled,
                   bgctxDone, gErr, tasks, ev>>

\* receive returns err (nil counts as context.Canceled).
receiveExit(err) ==
    /\ recvPc' = "done"
    /\ incoming' = NoMsg
    /\ taskExit(err)

\* receive's select takes ctx.Done.
receiveStop ==
    /\ recvPc = "idle"
    /\ bgctxDone
    /\ receiveExit("canceled")
    /\ tasks' = tasks - 1
    /\ UNCHANGED <<shutVars, sendVars, tblVars, nIn, cur, hold, nTaken, nHandled, ev>>

\* recv.Bootstrap(), recv.Call(), ... of receive's switch returned no error.
readOk(m) == m.perr # "read"

findExport(k, id) == k.exports[id]

\* recvCap for one descriptor of a payload: the client it yields.
recvCap(k, which, id) ==
    CASE which = "senderHosted" ->
           [k |-> [k EXCEPT !.imports[id] = @ + 1], client |-> "import",
            err |-> FALSE]
      [] which = "receiverHosted" ->
           IF findExport(k, id) = 0
           THEN [k |-> k, client |-> "none", err |-> TRUE]
           ELSE [k |-> k, client |-> "local", err |-> FALSE]
      [] OTHER -> [k |-> k, client |-> "none", err |-> FALSE]

\* recvPayload for a payload of up to two descriptors: when the second one
\* fails, the client made for the first is released, with c.lk held.
recvPayload(k, m) ==
    LET r1 == recvCap(k, m.cap, m.target) IN
    IF r1.err
    THEN [k |-> k, client |-> "none", err |-> TRUE]
    ELSE LET r2 == recvCap(r1.k, m.cap2, m.target) IN
         IF r2.err
         THEN [k |-> [k EXCEPT !.underLock =
                         IF r1.client # "none" THEN @ \cup {"client.Release"} ELSE @],
               client |-> "none", err |-> TRUE]
         ELSE [k |-> r2.k, client |-> r1.client, err |-> FALSE]

isLocalClientNever(client) == FALSE

\* The clients a cap table holds: the null client, an import of this
\* connection, a pipeline client of a question of this connection, an error
\* client, an import or pipeline client of another connection, a local one.
Clients == {"none", "import", "pipeline", "error", "proxy", "local"}

\* isLocalClient: the null client, an import and a pipeline client of this
\* connection and an error client are not local; every other client is.
isLocalClient(client) == client \notin {"none", "import", "pipeline", "error"}

\* c.embargo: a new embargo enters the table under the next id; its wrapper
\* will replace the client.
embargo(k) ==
    LET id == idgenNext(k.embargoID)
        m == CHOOSE m \in MObj : /\ k.emb[m].st = "none"
                                 /\ \A l \in MObj : l < m => k.emb[l].st # "none" IN
    [k |-> [k EXCEPT !.embargoID = idgenTake(@),
                     !.embargoes[id] = m,
                     !.emb[m] = [NoEmbargo EXCEPT !.st = "embargoed", !.id = id]],
     id |-> id, m |-> m]

skipUnlessLocal(r, i, locals) == i = 0 \/ i > Len(r.mtab) \/ i \notin locals

\* parseReturn's loop passes over a transform that leads to no interface
\* pointer, to a slot outside the table, to a client that is not local, or
\* to a slot it has embargoed already.
skip(r, i, locals) ==
    i = 0 \/ i > Len(r.mtab) \/ i \notin locals \/ i \in r.embargoCaps

\* parseReturn's loop over the called transforms of question qid.
RECURSIVE embargoCalled(_, _, _, _, _)
embargoCalled(r, called, at, locals, qid) ==
    IF called = <<>>
    THEN r
    ELSE LET xform == Head(called)
             i == at[xform] IN
         IF skip(r, i, locals)
         THEN embargoCalled(r, Tail(called), at, locals, qid)
         ELSE LET e == embargo(r.k) IN
              embargoCalled([k |-> e.k,
                             mtab |-> [r.mtab EXCEPT ![i] = "embargo"],
                             wrappers |-> [r.wrappers EXCEPT ![i] = e.m],
                             embargoCaps |-> r.embargoCaps \cup {i},
                             disembargoes |-> Append(r.disembargoes,
                                                     [id |-> e.id, question |-> qid,
                                                      transform |-> xform])],
                            Tail(called), at, locals, qid)

\* parseReturn for results: content and locals come from recvPayload, the
\* loop embargoes the called capabilities.
parseResults(k, called, at, mtab, qid) ==
    embargoCalled([k |-> k, mtab |-> mtab, wrappers |-> [s \in 1..Len(mtab) |-> 0],
                   embargoCaps |-> {}, disembargoes |-> <<>>],
                  called, at, {s \in 1..Len(mtab) : isLocalClient(mtab[s])}, qid)

\* parseReturn for the Return m of question i: an exception or a failed
\* parse rejects the promise; a local capability on a called path gets an
\* embargo.
parseReturn(k, i, m) ==
    IF m.perr = "body"
    THEN ReportError([k EXCEPT !.q[i].ret = "reject"], "parse", "return")
    ELSE IF m.exc
    THEN [k EXCEPT !.q[i].ret = "reject"]
    ELSE LET rc == recvPayload(k, m)
             k1 == [rc.k EXCEPT !.q[i].calledAtReturn = k.q[i].called,
                                !.q[i].cap = rc.client] IN
         IF rc.err
         THEN ReportError([rc.k EXCEPT !.q[i].ret = "reject"], "parse", "return")
         ELSE LET r == parseResults(k1, IF k.q[i].called THEN <<1>> ELSE <<>>,
                                    [p \in Paths |-> 1], <<rc.client>>, i) IN
              [r.k EXCEPT !.q[i].ret = "resolve",
                          !.q[i].wrapper = r.wrappers[1],
                          !.q[i].disembargo = r.disembargoes # <<>>]

finishFlushedAlways(qo) == TRUE

\* The id may be given back to the allocator: the Finish was flushed.
finishFlushed(qo) == qo.finishSent

popQuestionLater(k, qid) == k

\* "Pop the question from the table": c.lk.questions[qid] = nil.
popQuestion(k, qid) == [k EXCEPT !.questions[qid] = 0]

\* q.release = release: the results are data, which the caller may read for
\* as long as it holds the answer
saveRelease(k, i, m) ==
    [k EXCEPT !.q[i].release = ~k.q[i].bootstrapPromise /\ k.q[i].ret = "resolve",
              !.q[i].msg = m.seq]

\* a handler that treats the Return of a canceled question like any other
canceledReturnParsed(k, i) == [k EXCEPT !.q[i].ret = "resolve"]

\* handleReturn's canceled branch: the select on q.finishMsgSend; the id is
\* given back now if the Finish is out, and a goroutine waits for it if not.
canceledReturn(k, i) ==
    IF k.q[i].finishMsgSend
    THEN IF finishFlushed(k.q[i]) THEN removeID(k, i) ELSE k
    ELSE [k EXCEPT !.q[i].wait = "wait"]

\* handleReturn, up to the goroutine it forks.
handleReturn ==
    /\ recvPc = "idle"
    /\ incoming.type = "return"
    /\ readOk(incoming)
    /\ LET qid == incoming.id
           i == questions[qid] IN
       IF i = 0
       THEN /\ receiveExit("questionNotFound")
            /\ Commit(inRelease([K EXCEPT !.tasks = @ - 1], incoming))
       ELSE /\ incoming' = NoMsg
            /\ UNCHANGED <<recvPc, bgctxDone, gErr>>
            /\ LET k1 == [popQuestion(K, qid) EXCEPT !.q[i].finished = TRUE,
                                                     !.q[i].gotReturn = TRUE] IN
               IF q[i].finished
               THEN Commit(inRelease(canceledReturn(k1, i), incoming))
               ELSE Commit(saveRelease(parseReturn(k1, i, incoming), i, incoming))
    /\ nTaken' = nTaken + 1
    /\ nHandled' = nHandled + 1
    /\ UNCHANGED <<shutVars, sendPc, sendCur, wire, nIn, cur, hold>>

\* The goroutine handleReturn forks for a canceled question.
handleReturnWait ==
    \E i \in QObj :
       /\ q[i].wait = "wait"
       /\ q[i].finishMsgSend
       /\ IF finishFlushed(q[i])
          THEN Commit(removeID([K EXCEPT !.q[i].wait = "done"], i))
          ELSE Commit([K EXCEPT !.q[i].wait = "done"])
       /\ UNCHANGED <<shutVars, recvVars, sendPc, sendCur, wire, bgctxDone, gErr>>

\* The goroutine handleReturn forks otherwise: resolve the promise, and
\* release the message unless the question keeps the release ...
handleReturnResolve ==
    \E i \in QObj :
       /\ q[i].ret \in {"resolve", "reject"}
       /\ Commit(settle([K EXCEPT !.q[i].ret = "send",
                                   !.q[i].released = IF q[i].release THEN @ ELSE @ + 1],
                         i,
                         IF q[i].ret = "reject" THEN "rejected" ELSE "resolved",
                         IF q[i].ret = "reject" THEN "returned" ELSE "none"))
       /\ UNCHANGED <<shutVars, recvVars, sendPc, sendCur, wire, bgctxDone, gErr>>

\* ... then, under the lock, send the disembargoes and the Finish.
\* s.buildDisembargo: the senderLoopback Disembargo of question i's embargo
buildDisembargo(k, i) ==
    [kind |-> "disembargo", q |-> i, seq |-> 0, context |-> "senderLoopback",
     id |-> k.emb[k.q[i].wrapper].id]

\* the Finish of a question whose Return came
buildFinish(i) == [kind |-> "finish", q |-> i, seq |-> 0, releaseResultCaps |-> FALSE]

sendFinishFirst(k, i) ==
    LET k1 == sendMessageBuild(k, buildFinish(i)) IN
    IF k.q[i].disembargo THEN sendMessageBuild(k1, buildDisembargo(k, i)) ELSE k1

\* the lock region of the goroutine: the Disembargoes, then the Finish
sendDisembargoesFinish(k, i) ==
    sendMessageBuild(IF k.q[i].disembargo
                     THEN sendMessageBuild(k, buildDisembargo(k, i))
                     ELSE k,
                     buildFinish(i))

handleReturnSend ==
    \E i \in QObj :
       /\ q[i].ret = "send"
       /\ Commit(sendDisembargoesFinish([K EXCEPT !.q[i].ret = "done"], i))
       /\ UNCHANGED <<shutVars, recvVars, sendPc, sendCur, wire, bgctxDone, gErr>>

\* ------------------------------------------------------------ releaseList
\* embargo.lift: the wrapper delivers the calls it has queued.
lift(m, by) ==
    [m EXCEPT !.st = "lifted", !.delivered = @ + m.queued, !.queued = 0,
              !.lifts = @ + 1, !.by = by]

\* releaseList.Release: run the functions the list holds; msgs is the
\* message whose release the handler deferred.
rlRun(k, r, by) ==
    [k EXCEPT !.q = [i \in QObj |-> IF i \in r.questions
                                    THEN [k.q[i] EXCEPT !.p = "rejected",
                                                        !.rej = "disconnected",
                                                        !.settled = @ + 1]
                                    ELSE k.q[i]],
              !.ev.resolve = @ + Cardinality(r.questions),
              !.expent = [e \in EObj |-> IF e \in r.exports
                                         THEN [k.expent[e] EXCEPT !.released = @ + 1]
                                         ELSE k.expent[e]],
              !.emb = [m \in MObj |-> IF m \in r.embargoes THEN lift(k.emb[m], by)
                                      ELSE k.emb[m]],
              !.retMsgs = [n \in DOMAIN k.retMsgs |->
                              IF n \in r.answers THEN k.retMsgs[n] + 1 ELSE k.retMsgs[n]],
              !.msgReleases = IF r.msgs = {} THEN @ ELSE Append(@, CHOOSE n \in r.msgs : TRUE)]

\* ------------------------------------------------------------ exports
\* sendCap for the bootstrap client: an id the client already has on this
\* connection gets one more reference, otherwise a new entry is made.
sendCap(k) ==
    IF \E id \in EIds : k.exports[id] # 0
    THEN LET id == CHOOSE id \in EIds : k.exports[id] # 0 IN
         [k |-> [k EXCEPT !.expent[k.exports[id]].wireRefs = @ + 1], id |-> id]
    ELSE LET id == idgenNext(k.exportID)
             e == CHOOSE e \in EObj : /\ k.expent[e].st = "none"
                                      /\ \A f \in EObj : f < e => k.expent[f].st # "none" IN
         [k |-> [k EXCEPT !.exportID = idgenTake(@),
                          !.exports[id] = e,
                          !.expent[e] = [NoExport EXCEPT !.st = "live", !.id = id,
                                                         !.wireRefs = 1]],
          id |-> id]

\* releaseExport: the client to release when the count drops to zero.
releaseExport(k, id, count) ==
    LET e == findExport(k, id) IN
    IF e = 0
    THEN [k |-> k, client |-> {}, err |-> TRUE]
    ELSE IF count = k.expent[e].wireRefs
    THEN [k |-> [k EXCEPT !.exports[id] = 0,
                          !.exportID = idgenRemove(@, id),
                          !.expent[e].st = "erased",
                          !.expent[e].wireRefs = @ - count],
          client |-> {e}, err |-> FALSE]
    ELSE IF count > k.expent[e].wireRefs
    THEN [k |-> k, client |-> {}, err |-> TRUE]
    ELSE [k |-> [k EXCEPT !.expent[e].wireRefs = @ - count], client |-> {}, err |-> FALSE]

\* ------------------------------------------------------------ answers
\* newReturn: one more Return message, not released yet.
newReturn(k) == [k EXCEPT !.retMsgs = Append(@, 0)]

\* msgReleaser.Decr of the Return message n
msgDecr(msgs, n) == [msgs EXCEPT ![n] = @ + 1]

\* answer.destroy: out of the table, the Return message released, and with
\* releaseResultCaps one reference of every export in the results dropped.
destroy(k, id, by) ==
    LET a == k.answers[id]
        k1 == [k EXCEPT !.answers[id] = NoAnswer,
                        !.destroyed = @ \cup {[returnSent |-> a.returnSent,
                                               finishReceived |-> a.finishReceived,
                                               by |-> by]},
                        !.retMsgs = IF a.msgReleaser THEN msgDecr(@, a.msg) ELSE @] IN
    IF a.releaseResultCaps /\ a.caps # {}
    THEN releaseExport(k1, CHOOSE e \in a.caps : TRUE, 1)
    ELSE [k |-> k1, client |-> {}, err |-> FALSE]

\* The receive goroutine leaves the lock region of a one-step handler: with
\* The errors of the handlers that find the peer breaking a table.
Violations == {"questionNotFound", "bootstrapReused", "callReused", "answerNotFound",
               "finishTwice"}

recvFailAnon(e) ==
    /\ incoming' = NoMsg
    /\ cur' = NoMsg
    /\ nTaken' = nTaken + 1
    /\ recvPc' = "done"
    /\ taskExit("fail")
    /\ hold' = EmptyRl
    /\ nHandled' = nHandled + 1

\* receive returns the error of a handler that changed nothing.
recvFail(e) ==
    /\ incoming' = NoMsg
    /\ cur' = NoMsg
    /\ nTaken' = nTaken + 1
    /\ recvPc' = "done"
    /\ taskExit(e)
    /\ hold' = EmptyRl
    /\ nHandled' = nHandled + 1

\* an error receive returns, otherwise it releases what the handler's
\* releaseList holds, if anything, and takes the next message.
recvLeave(err, rlist) ==
    /\ incoming' = NoMsg
    /\ cur' = NoMsg
    /\ nTaken' = nTaken + 1
    /\ IF err
       THEN /\ recvPc' = "done"
            /\ taskExit("fail")
            /\ hold' = EmptyRl
            /\ nHandled' = nHandled + 1
       ELSE /\ hold' = rlist
            /\ recvPc' = IF rlist # EmptyRl THEN "rl" ELSE "idle"
            /\ nHandled' = IF rlist # EmptyRl THEN nHandled ELSE nHandled + 1
            /\ UNCHANGED <<bgctxDone, gErr>>

\* receive, a message whose recv.Bootstrap(), recv.Call(), ... fails: the
\* message is released, the error reported, and the loop continues.
recvReadError ==
    /\ recvPc = "idle"
    /\ incoming.type \in {"bootstrap", "call", "return", "finish", "release", "disembargo"}
    /\ ~readOk(incoming)
    /\ recvLeave(FALSE, EmptyRl)
    /\ Commit(inRelease(ReportError(K, "read", incoming.type), incoming))
    /\ UNCHANGED <<shutVars, sendPc, sendCur, wire, nIn>>

\* an Abort after which the loop goes on
handleAbortContinue ==
    /\ recvPc = "idle"
    /\ incoming.type = "abort"
    /\ recvLeave(FALSE, EmptyRl)
    /\ Commit(inRelease(ReportError(K, "remote abort", "abort"), incoming))
    /\ UNCHANGED <<shutVars, sendPc, sendCur, wire, nIn>>

\* receive, an Abort: the remote abort, or the failure to read it, is
\* reported and receive returns nil.
handleAbort ==
    /\ recvPc = "idle"
    /\ incoming.type = "abort"
    /\ receiveExit("canceled")
    /\ cur' = NoMsg
    /\ hold' = EmptyRl
    /\ nTaken' = nTaken + 1
    /\ nHandled' = nHandled + 1
    /\ Commit(inRelease(ReportError([K EXCEPT !.tasks = @ - 1],
                                    IF incoming.perr = "none" THEN "remote abort" ELSE "read",
                                    "abort"),
                        incoming))
    /\ UNCHANGED <<shutVars, sendPc, sendCur, wire, nIn>>

BootstrapMsgs == {[NoMsg EXCEPT !.type = "bootstrap", !.id = id] : id \in AIds}

\* errorAnswer: an answer that holds an error and counts as returned
errorAnswer == [NoAnswer EXCEPT !.st = "live", !.returnSent = TRUE, !.err = TRUE]

\* a handler that sends whether or not it has a message to send
bootstrapReturnAlways(k, id, alloc) == sendMessage(k, "return", id)

\* handleBootstrap when c.newReturn failed: the error answer is entered and
\* the error reported; there is no Return to send.
bootstrapReturn(k, id, alloc) ==
    IF alloc THEN sendMessage(k, "return", id)
    ELSE ReportError([k EXCEPT !.answers[id] = errorAnswer], "incoming bootstrap", "bootstrap")

\* handleBootstrap: the answer is entered and its Return is enqueued in one
\* lock region; Allocs are the outcomes of c.newReturn (TRUE: a message).
handleBootstrapOf(Allocs) ==
    /\ recvPc = "idle"
    /\ incoming.type = "bootstrap"
    /\ readOk(incoming)
    /\ LET id == incoming.id IN
       IF answers[id].st # "nil"
       THEN /\ recvFail("bootstrapReused")
            /\ Commit(inRelease([K EXCEPT !.tasks = @ - 1, !.retMsgs = Append(@, 1)],
                                incoming))
       ELSE /\ recvLeave(FALSE, EmptyRl)
            /\ \E alloc \in Allocs :
               LET k0 == inRelease(IF alloc THEN newReturn(K) ELSE K, incoming)
                   ans == [NoAnswer EXCEPT !.st = "live", !.msgReleaser = TRUE,
                                           !.returnSent = TRUE,
                                           !.err = ~bootstrap,
                                           !.results = IF bootstrap THEN "local" ELSE "none",
                                           !.msg = Len(k0.retMsgs)] IN
               IF bootstrap /\ alloc
               THEN LET sc == sendCap(k0) IN
                    Commit(bootstrapReturn(
                       [sc.k EXCEPT !.answers[id] = [ans EXCEPT !.caps = {sc.id}]],
                       id, alloc))
               ELSE Commit(bootstrapReturn([k0 EXCEPT !.answers[id] = ans], id, alloc))
    /\ UNCHANGED <<shutVars, sendPc, sendCur, wire, nIn>>

\* the sessions in which every Return message can be allocated
handleBootstrap == handleBootstrapOf({TRUE})

FinishMsgs == {[NoMsg EXCEPT !.type = "finish", !.id = id, !.releaseResultCaps = r] :
                  id \in AIds, r \in BOOLEAN}

destroyAlways(ans) == TRUE

\* handleFinish destroys the answer only if its Return has been sent.
destroyOnFinish(ans) == ans.returnSent

handleFinish ==
    /\ recvPc = "idle"
    /\ incoming.type = "finish"
    /\ readOk(incoming)
    /\ LET id == incoming.id
           ans == answers[id] IN
       IF ans.st = "nil" \/ ans.finishReceived
       THEN /\ recvFail(IF ans.st = "nil" THEN "answerNotFound" ELSE "finishTwice")
            /\ Commit(inRelease([K EXCEPT !.tasks = @ - 1], incoming))
       ELSE LET k1 == [inRelease(K, incoming) EXCEPT
                                !.answers[id].finishReceived = TRUE,
                                !.answers[id].releaseResultCaps = incoming.releaseResultCaps,
                                !.ev.cancel = IF ans.cancel THEN @ + 1 ELSE @] IN
            IF ~destroyOnFinish(ans)
            THEN recvLeave(FALSE, EmptyRl) /\ Commit(k1)
            ELSE LET d == destroy(k1, id, "finish") IN
                 /\ recvLeave(d.err, [EmptyRl EXCEPT !.exports = d.client])
                 /\ Commit([d.k EXCEPT !.tasks = IF d.err THEN @ - 1 ELSE @])
    /\ UNCHANGED <<shutVars, sendPc, sendCur, wire, nIn>>

ReleaseMsgs == {[NoMsg EXCEPT !.type = "release", !.id = id, !.n = n] :
                   id \in EIds, n \in 1..MaxRefs}

\* handleRelease, the lock region.
handleRelease ==
    /\ recvPc = "idle"
    /\ incoming.type = "release"
    /\ readOk(incoming)
    /\ LET r == releaseExport(inRelease(K, incoming), incoming.id, incoming.n) IN
       /\ recvLeave(r.err, [EmptyRl EXCEPT !.exports = r.client])
       /\ Commit([r.k EXCEPT !.tasks = IF r.err THEN @ - 1 ELSE @])
    /\ UNCHANGED <<shutVars, sendPc, sendCur, wire, nIn>>

\* The releaseList of the handler is released after the mutex is dropped:
\* client.Release() of handleRelease, rl.Release() of handleFinish, e.lift()
\* of handleDisembargo.
recvRelease ==
    /\ recvPc = "rl"
    /\ Commit(rlRun(K, hold, "disembargo"))
    /\ hold' = EmptyRl
    /\ nHandled' = nHandled + 1
    /\ recvPc' = "idle"
    /\ UNCHANGED <<shutVars, sendPc, sendCur, wire, incoming, nIn, cur, nTaken,
                   bgctxDone, gErr>>

DisembargoMsgs == {[NoMsg EXCEPT !.type = "disembargo", !.id = id] : id \in MIds}

findEmbargo(k, id) == k.embargoes[id]

removeEmbargoKeepID(k, id) == [k EXCEPT !.embargoes[id] = 0]

\* the entry leaves the table and its id goes back to the allocator
removeEmbargo(k, id) ==
    [k EXCEPT !.embargoes[id] = 0, !.embargoID = idgenRemove(@, id)]

loopbackTargetAny(k, m) == FALSE

\* handleDisembargo with a senderLoopback context, the first lock region: the
\* target must be a promised answer that is in the table, has sent its Return
\* and returned no exception, and the transform must lead to a capability in
\* the results.
loopbackTargetErr(k, m) ==
    \/ ~m.promised
    \/ k.answers[m.target].st = "nil"
    \/ ~k.answers[m.target].returnSent
    \/ k.answers[m.target].err
    \/ m.at = 0
    \/ k.answers[m.target].results \notin Clients

\* imp.id: the one import id the peer uses
importID(client) == CHOOSE i \in IIds : TRUE

\* the receiverLoopback Disembargo sent back: the id of the one received, and
\* the import the capability is
buildLoopback(id, imp) ==
    [kind |-> "disembargo", q |-> 0, seq |-> 0, msg |-> 0, context |-> "receiverLoopback",
     id |-> id, importedCap |-> imp]

\* handleDisembargo, the lock region.  receiverLoopback: the embargo leaves
\* the table, its lift runs after the region.  senderLoopback: the client the
\* target leads to is read.  Any other context: an unimplemented reply.
handleDisembargo ==
    /\ recvPc = "idle"
    /\ incoming.type = "disembargo"
    /\ readOk(incoming)
    /\ LET id == incoming.id
           e == findEmbargo(K, id) IN
       IF incoming.perr = "body"
       THEN /\ recvLeave(TRUE, EmptyRl)
            /\ Commit(inRelease([K EXCEPT !.tasks = @ - 1], incoming))
       ELSE IF incoming.context = "receiverLoopback"
       THEN IF e = 0
            THEN /\ recvLeave(TRUE, EmptyRl)
                 /\ Commit(inRelease([K EXCEPT !.tasks = @ - 1], incoming))
            ELSE /\ recvLeave(FALSE, [EmptyRl EXCEPT !.embargoes = {e},
                                                     !.msgs = {incoming.seq}])
                 /\ Commit(removeEmbargo(K, id))
       ELSE IF incoming.context = "senderLoopback"
       THEN IF loopbackTargetErr(K, incoming)
            THEN /\ recvLeave(TRUE, EmptyRl)
                 /\ Commit(inRelease([K EXCEPT !.tasks = @ - 1], incoming))
            ELSE /\ incoming' = NoMsg
                 /\ nTaken' = nTaken + 1
                 /\ cur' = [incoming EXCEPT !.cap = answers[incoming.target].results]
                 /\ recvPc' = "loopback"
                 /\ UNCHANGED <<tblVars, sendq, nextSeq, ev, tasks, hold, nHandled,
                                bgctxDone, gErr>>
       ELSE /\ recvLeave(FALSE, EmptyRl)
            /\ Commit(sendMessageBuild(ReportError(K, "context", "disembargo"),
                                       [kind |-> "unimplementedDisembargo", q |-> 0,
                                        seq |-> 0, msg |-> incoming.seq]))
    /\ UNCHANGED <<shutVars, sendPc, sendCur, wire, nIn>>

\* handleDisembargo with a senderLoopback context, after the lock region:
\* the client must be an import of this connection; the Disembargo is sent
\* back to it in a second lock region.
handleDisembargoLoopback ==
    /\ recvPc = "loopback"
    /\ IF cur.cap # "import"
       THEN /\ recvPc' = "done"
            /\ taskExit("fail")
            /\ tasks' = tasks - 1
            /\ UNCHANGED <<tblVars, sendq, nextSeq, ev>>
       ELSE /\ recvPc' = "idle"
            /\ Commit(sendMessageBuild(K, [buildLoopback(cur.id, importID(cur.cap))
                                              EXCEPT !.msg = cur.seq]))
            /\ UNCHANGED <<bgctxDone, gErr>>
    /\ cur' = NoMsg
    /\ nHandled' = nHandled + 1
    /\ UNCHANGED <<shutVars, sendPc, sendCur, wire, incoming, nIn, hold, nTaken>>

CallMsgs == {[NoMsg EXCEPT !.type = "call", !.id = id, !.target = t] :
                id \in AIds, t \in EIds}

recvSelectAlways == recvPc # "done"

\* receive is at its select: the handler of the previous message has returned.
recvSelect == recvPc = "idle"

\* releaseCall(): the release function of the Call message m.
releaseCall(k, m) == [k EXCEPT !.msgReleases = Append(@, m.seq)]

\* handleCall, up to newReturn: the answer id must be free.
handleCall ==
    /\ recvSelect
    /\ incoming.type = "call"
    /\ readOk(incoming)
    /\ incoming' = NoMsg
    /\ nTaken' = nTaken + 1
    /\ IF incoming.sendResultsTo # "caller"
       THEN \* sendMessage, called without c.lk: the message is built, which
            \* releases the Call, and sendTx.Send begins
            /\ recvPc' = "sendTx"
            /\ cur' = [incoming EXCEPT !.tail = nextSeq]
            /\ Commit(releaseCall(ReportError(K, "results destination", "call"), incoming))
            /\ UNCHANGED <<bgctxDone, gErr, nHandled>>
       ELSE IF answers[incoming.id].st # "nil"
       THEN /\ recvPc' = "done"
            /\ taskExit("callReused")
            /\ Commit(releaseCall([K EXCEPT !.tasks = @ - 1], incoming))
            /\ nHandled' = nHandled + 1
            /\ UNCHANGED cur
       ELSE LET rc == recvPayload(K, incoming) IN
            /\ recvPc' = "install"
            /\ cur' = [incoming EXCEPT !.perr = IF rc.err THEN "body" ELSE @]
            /\ Commit(rc.k)
            /\ UNCHANGED <<bgctxDone, gErr, nHandled>>
    /\ UNCHANGED <<shutVars, sendPc, sendCur, wire, nIn, hold>>

\* what a Send on the single-producer queue leaves in it when it began with
\* the job numbered tail as the last one: without c.lk, the Sends of other
\* goroutines since then race with it, and either side's jobs may be lost
SendOutcomes == {"kept", "lostOwn", "lostOthers"}

sendTxRace(queue, job, tail, outcome) ==
    CASE outcome = "kept" -> sendTxSend(queue, job)
      [] outcome = "lostOwn" -> queue
      [] outcome = "lostOthers" ->
            sendTxSend(SelectSeq(queue, LAMBDA j : j.seq <= tail), job)

\* handleCall for a Call with sendResultsTo other than caller: sendTx.Send
\* completes, and the handler returns nil.
handleCallSendTx ==
    /\ recvPc = "sendTx"
    /\ cur.type = "call"
    /\ \E outcome \in (IF nextSeq = cur.tail THEN {"kept"} ELSE SendOutcomes) :
          LET job == [kind |-> "unimplementedCall", q |-> 0, seq |-> nextSeq + 1] IN
          Commit([K EXCEPT !.sendq = sendTxRace(@, job, cur.tail, outcome),
                           !.nextSeq = @ + 1,
                           !.jobs = Append(@, [NoJobLog EXCEPT !.kind = job.kind])])
    /\ recvPc' = "idle"
    /\ cur' = NoMsg
    /\ nHandled' = nHandled + 1
    /\ UNCHANGED <<shutVars, sendPc, sendCur, wire, incoming, nIn, hold, nTaken,
                   bgctxDone, gErr>>

\* receive, an unimplemented message: nothing is done with it, and receive
\* takes the next message.
receiveUnimplemented ==
    /\ recvPc = "idle"
    /\ incoming.type = "unimplemented"
    /\ recvLeave(FALSE, EmptyRl)
    /\ UNCHANGED <<tblVars, sendq, nextSeq, tasks, ev>>
    /\ UNCHANGED <<shutVars, sendPc, sendCur, wire, nIn>>

\* receive, a message of any other kind: the error is reported and
\* sendMessage is called, without c.lk; build, which releases the message
\* once it has copied it into the reply, runs only if the transport had a
\* message for the reply (Allocs: the outcomes of NewMessage); then
\* sendTx.Send begins.
receiveDefaultOf(Allocs) ==
    /\ recvPc = "idle"
    /\ incoming.type = "unknown"
    /\ incoming' = NoMsg
    /\ nTaken' = nTaken + 1
    /\ recvPc' = "sendTx"
    /\ \E alloc \in Allocs :
          /\ cur' = [incoming EXCEPT !.tail = nextSeq, !.exc = alloc]
          /\ LET k1 == ReportError(K, "unknown message type", "unknown") IN
             Commit(IF alloc THEN inRelease(k1, incoming) ELSE k1)
    /\ UNCHANGED <<bgctxDone, gErr, nHandled>>
    /\ UNCHANGED <<shutVars, sendPc, sendCur, wire, nIn, hold>>

\* sendTx.Send of that reply completes, and receive takes the next message.
receiveDefaultSendTx ==
    /\ recvPc = "sendTx"
    /\ cur.type = "unknown"
    /\ \E outcome \in (IF nextSeq = cur.tail THEN {"kept"} ELSE SendOutcomes) :
          LET job == [kind |-> "unimplemented", q |-> 0, seq |-> nextSeq + 1,
                      built |-> cur.exc] IN
          Commit([K EXCEPT !.sendq = sendTxRace(@, job, cur.tail, outcome),
                           !.nextSeq = @ + 1,
                           !.jobs = Append(@, [NoJobLog EXCEPT !.kind = job.kind])])
    /\ recvPc' = "idle"
    /\ cur' = NoMsg
    /\ nHandled' = nHandled + 1
    /\ UNCHANGED <<shutVars, sendPc, sendCur, wire, incoming, nIn, hold, nTaken,
                   bgctxDone, gErr>>

\* a call that is dispatched without being counted
tasksAddNever(k) == k

\* c.tasks.Add(1) // will be finished by answer.Return
tasksAdd(k) == [k EXCEPT !.tasks = @ + 1]

\* a target that is always found
targetMissingNever(k, ans) == FALSE

\* the target of the Call cur, looked up with its own answer ans already in
\* the table: an export entry, or the answer a promisedAnswer names
targetMissing(k, ans) ==
    IF cur.promised
    THEN LET tgtAns == [k.answers EXCEPT ![cur.id] = ans][cur.target] IN
         tgtAns.st = "nil" \/ tgtAns.finishReceived
    ELSE findExport(k, cur.target) = 0

\* handleCall, second lock region: enter the answer, find the target.
handleCallInstall ==
    /\ recvPc = "install"
    /\ LET id == cur.id
           k0 == newReturn(K)
           ans == [NoAnswer EXCEPT !.st = "live", !.msgReleaser = TRUE,
                                   !.msg = Len(k0.retMsgs)]
           tgtAns == [k0.answers EXCEPT ![id] = ans][cur.target] IN
       IF cur.perr = "body"
       THEN /\ Commit(releaseCall(ReportError(
                  sendMessage([k0 EXCEPT !.answers[id] = [ans EXCEPT !.returnSent = TRUE,
                                                                    !.err = TRUE]],
                              "return", id),
                  "parse", "call"), cur))
            /\ recvPc' = "idle"
            /\ cur' = NoMsg
            /\ nHandled' = nHandled + 1
            /\ UNCHANGED <<bgctxDone, gErr>>
       ELSE IF targetMissing(k0, ans)
       THEN /\ Commit(releaseCall(
                  [k0 EXCEPT !.answers[id] = [ans EXCEPT !.msgReleaser = FALSE],
                             !.retMsgs = msgDecr(@, ans.msg),
                             !.tasks = @ - 1], cur))
            /\ recvPc' = "done"
            /\ taskExit("fail")
            /\ cur' = NoMsg
            /\ nHandled' = nHandled + 1
       ELSE IF cur.promised /\ tgtAns.returnSent /\ tgtAns.err
       THEN \* the target answer returned an exception: so does this one
            /\ Commit(releaseCall(
                  sendMessage([k0 EXCEPT !.answers[id] = [ans EXCEPT !.returnSent = TRUE,
                                                                    !.err = TRUE]],
                              "return", id), cur))
            /\ recvPc' = "idle"
            /\ cur' = NoMsg
            /\ nHandled' = nHandled + 1
            /\ UNCHANGED <<bgctxDone, gErr>>
       ELSE IF cur.promised /\ ~tgtAns.returnSent
       THEN \* results not ready: tgtAns.pcalls.Add(1), tgt := tgtAns.pcall
            /\ Commit(tasksAdd([k0 EXCEPT !.answers[id] = [ans EXCEPT !.cancel = TRUE],
                                          !.answers[cur.target].pcalls = @ + 1]))
            /\ recvPc' = "pipelineRecv"
            /\ UNCHANGED <<bgctxDone, gErr, cur, nHandled>>
       ELSE /\ Commit(tasksAdd([k0 EXCEPT !.answers[id] = [ans EXCEPT !.cancel = TRUE]]))
            /\ recvPc' = "recvCall"
            /\ UNCHANGED <<bgctxDone, gErr, cur, nHandled>>
    /\ UNCHANGED <<shutVars, sendPc, sendCur, wire, incoming, nIn, hold, nTaken>>

\* handleCall, outside the lock: RecvCall on the client of the export or of
\* the target answer's results, then setPipelineCaller.
handleCallRecvCall ==
    /\ recvPc = "recvCall"
    /\ Commit([K EXCEPT !.delivered = Append(@, [seq |-> cur.seq, target |-> cur.target,
                                                 via |-> IF cur.promised THEN "results"
                                                         ELSE "export"]),
                        !.answers[cur.id].running = TRUE,
                        !.answers[cur.id].pcall = TRUE])
    /\ recvPc' = "idle"
    /\ cur' = NoMsg
    /\ nHandled' = nHandled + 1
    /\ UNCHANGED <<shutVars, sendPc, sendCur, wire, incoming, nIn, hold, nTaken,
                   bgctxDone, gErr>>

\* handleCall, outside the lock: tgt.PipelineRecv on the pipeline caller read
\* from the target answer, tgtAns.pcalls.Done(), setPipelineCaller.  A nil
\* pipeline caller makes the call panic.
handleCallPipelineRecv ==
    /\ recvPc = "pipelineRecv"
    /\ IF answers[cur.target].pcall
       THEN /\ Commit([K EXCEPT !.delivered = Append(@, [seq |-> cur.seq,
                                                         target |-> cur.target,
                                                         via |-> "pcall"]),
                                !.answers[cur.target].pcalls = @ - 1,
                                !.answers[cur.id].running = TRUE,
                                !.answers[cur.id].pcall = TRUE])
            /\ recvPc' = "idle"
            /\ cur' = NoMsg
            /\ nHandled' = nHandled + 1
       ELSE /\ recvPc' = "panic"
            /\ UNCHANGED <<cur, nHandled, tasks, sendq, nextSeq, tblVars, ev>>
    /\ UNCHANGED <<shutVars, sendPc, sendCur, wire, incoming, nIn, hold, nTaken,
                   bgctxDone, gErr>>

\* answer.Return, called by the method the Call was handed to: the Return
\* is enqueued and flagged sent, the answer is destroyed if its Finish has
\* arrived, and the task handleCall started is done.  The results are plain
\* data or hold one capability: a local one, or an import the vat holds.
ReturnOf(Results) ==
    \E id \in AIds, res \in Results :
       /\ answers[id].st = "live"
       /\ answers[id].running
       /\ res = "import" => \E i \in IIds : imports[i] > 0
       /\ LET k1 == sendMessage([K EXCEPT !.answers[id].returnSent = TRUE,
                                          !.answers[id].running = FALSE,
                                          !.answers[id].results = res,
                                          !.tasks = @ - 1], "return", id) IN
          IF answers[id].finishReceived
          THEN Commit(destroy(k1, id, "return").k)
          ELSE Commit(k1)
       /\ UNCHANGED <<shutVars, recvVars, sendPc, sendCur, wire, bgctxDone, gErr>>

\* a method that returns plain data
Return == ReturnOf({"data"})

\* ------------------------------------------------------------ shutdown
\* Conn.Close: shutdown with ErrConnClosed as the abort error.  The caller 0
\* is the monitor goroutine of NewConn, which calls shutdown once both
\* background tasks have returned (g.Wait).
mayCall(c) == c # 0 \/ (sendPc = "done" /\ recvPc = "done")

\* The error to send as an Abort: Close's ErrConnClosed, or the error of the
\* errgroup unless it is context.Canceled.
abortErr(c) == c # 0 \/ gErr \notin {"none", "canceled"}

\* cancelTasks: the answers whose cancel is called.
cancelTasks == {a \in AIds : answers[a].st = "live" /\ answers[a].cancel}

alreadyClosingNever == FALSE

alreadyClosing == closing

\* shutdown's first lock region, and the goroutine it forks when it is the
\* first caller.
shutdownStart(c) ==
    /\ shPc[c] = "idle"
    /\ mayCall(c)
    /\ IF alreadyClosing
       THEN /\ shPc' = [shPc EXCEPT ![c] = "waitClosed"]
            /\ UNCHANGED <<closing, bgctxDone, closerPc, steps, ev>>
       ELSE /\ closing' = TRUE
            /\ bgctxDone' = TRUE
            /\ steps' = [steps EXCEPT !.cancel = @ + 1]
            /\ ev' = [ev EXCEPT !.cancel = @ + Cardinality(cancelTasks)]
            /\ closerPc' = "wait"
            /\ shPc' = [shPc EXCEPT ![c] = "tasksWait"]
    /\ UNCHANGED <<srv, bootstrap, closed, transportClosed, readyForClose, rl, sendVars, recvVars,
                   tblVars, gErr, tasks>>

tasksDoneAlways == TRUE

\* c.tasks.Wait() returns: the counter is zero.
tasksDone == tasks = 0

\* c.tasks.Wait()
tasksWait(c) ==
    /\ shPc[c] = "tasksWait"
    /\ tasksDone
    /\ shPc' = [shPc EXCEPT ![c] = "drain"]
    /\ UNCHANGED <<srv, bootstrap, closing, closed, transportClosed, readyForClose, closerPc, rl, steps,
                   sendVars, recvVars, tblVars, bgctxDone, gErr, tasks, ev>>

\* drainQueue: one turn of its loop, asyncSend.Abort on the job received.
drainQueue(c) ==
    /\ shPc[c] = "drain"
    /\ IF sendq = <<>>
       THEN /\ shPc' = [shPc EXCEPT ![c] = "release"]
            /\ steps' = [steps EXCEPT !.drain = @ + 1]
            /\ UNCHANGED <<tblVars, tasks, ev, sendq, nextSeq>>
       ELSE /\ Commit(asyncSendAbort([K EXCEPT !.sendq = Tail(@)], Head(sendq)))
            /\ UNCHANGED <<shPc, steps>>
    /\ UNCHANGED <<srv, bootstrap, closing, closed, transportClosed, readyForClose, closerPc, rl,
                   sendPc, sendCur, wire, recvVars, bgctxDone, gErr>>

releaseExportsEver == {e \in EObj : expent[e].st # "none"}

\* releaseExports: the entries still in the table.
releaseExports == {e \in EObj : \E id \in EIds : exports[id] = e}

\* liftEmbargoes: the embargoes still in the table.
liftEmbargoes == {m \in MObj : \E id \in MIds : embargoes[id] = m}

\* releaseAnswers: the answers in the table that have a msgReleaser.
releaseAnswers == {a \in AIds : answers[a].st = "live" /\ answers[a].msgReleaser}

releaseQuestionsAll == {i \in QObj : \E id \in QIds : questions[id] = i}

\* releaseQuestions: the questions still in the table and not flagged finished.
releaseQuestions == {i \in QObj : \E id \in QIds : questions[id] = i /\ ~q[i].finished}

\* Conn.release under the lock: clear the tables, fill the releaseList.
release(c) ==
    /\ shPc[c] = "release"
    /\ rl' = [questions |-> releaseQuestions, exports |-> releaseExports,
              embargoes |-> liftEmbargoes,
              answers |-> {answers[a].msg : a \in releaseAnswers}, bootstrap |-> TRUE,
              msgs |-> {}]
    /\ embargoes' = [m \in MIds |-> 0]
    /\ imports' = [i \in IIds |-> 0]
    /\ questions' = [id \in QIds |-> 0]
    /\ exports' = [id \in EIds |-> 0]
    /\ answers' = [a \in AIds |-> NoAnswer]
    /\ destroyed' = destroyed \cup
          {[returnSent |-> answers[a].returnSent,
            finishReceived |-> answers[a].finishReceived,
            by |-> "release"] : a \in {x \in AIds : answers[x].st = "live"}}
    /\ bootstrap' = FALSE
    /\ steps' = [steps EXCEPT !.release = @ + 1]
    /\ shPc' = [shPc EXCEPT ![c] = "rlRelease"]
    /\ UNCHANGED <<srv, closing, closed, transportClosed, readyForClose, closerPc,
                   sendVars, recvVars, questionID, q, exportID, expent, delivered,
                   embargoID, emb, obsVars, bgctxDone, gErr, tasks, ev>>

\* rl.Release(), outside the lock.
rlRelease(c) ==
    /\ shPc[c] = "rlRelease"
    /\ Commit(rlRun(K, rl, "release"))
    /\ rl' = EmptyRl
    /\ shPc' = [shPc EXCEPT ![c] = "abort"]
    /\ UNCHANGED <<srv, bootstrap, closing, closed, transportClosed, readyForClose, closerPc,
                   steps, sendPc, sendCur, wire, recvVars, bgctxDone, gErr>>

\* Conn.abort, then close(readyForClose).
abort(c) ==
    /\ shPc[c] = "abort"
    /\ \E io \in BOOLEAN :
          wire' = IF abortErr(c) /\ io /\ ~transportClosed
                  THEN Append(wire, [kind |-> "abort", q |-> 0, seq |-> 0,
                                     reason |-> IF c = 0 THEN gErr ELSE "closed"])
                  ELSE wire
    /\ steps' = [steps EXCEPT !.abort = @ + 1]
    /\ readyForClose' = TRUE
    /\ shPc' = [shPc EXCEPT ![c] = "waitClosed"]
    /\ UNCHANGED <<srv, bootstrap, closing, closed, transportClosed, closerPc, rl, sendq, nextSeq,
                   sendPc, sendCur, recvVars, tblVars, bgctxDone, gErr, tasks, ev>>

\* <-c.closed, and shutdown returns.
shutdownReturn(c) ==
    /\ shPc[c] = "waitClosed"
    /\ closed
    /\ shPc' = [shPc EXCEPT ![c] = "returned"]
    /\ UNCHANGED <<srv, bootstrap, closing, closed, transportClosed, readyForClose, closerPc, rl, steps,
                   sendVars, recvVars, tblVars, bgctxDone, gErr, tasks, ev>>

\* The goroutine shutdown forks: it waits for readyForClose or for
\* time.After(c.abortTimeout), closes the transport and then c.closed.
closer ==
    /\ closerPc = "wait"
    /\ \E elapsed \in BOOLEAN : readyForClose \/ elapsed
    /\ transportClosed' = TRUE
    /\ closed' = TRUE
    /\ steps' = [steps EXCEPT !.close = @ + 1, !.done = @ + 1]
    /\ closerPc' = "done"
    /\ UNCHANGED <<srv, bootstrap, closing, readyForClose, shPc, rl, sendVars, recvVars, tblVars,
                   bgctxDone, gErr, tasks, ev>>

\* the steps of shutdown that follow its first lock region
shutdownRun(c) ==
    \/ tasksWait(c)
    \/ drainQueue(c)
    \/ release(c)
    \/ rlRelease(c)
    \/ abort(c)
    \/ shutdownReturn(c)

shutdown == \E c \in Callers : shutdownStart(c) \/ shutdownRun(c)

\* ------------------------------------------------------------ specification
readReturn == \E m \in ReturnMsgs : reader(m, MaxIn)

readAnswer == \E m \in BootstrapMsgs \cup CallMsgs \cup FinishMsgs \cup ReleaseMsgs : reader(m, MaxInA)

Next ==
    \/ Bootstrap(MaxQ)
    \/ handleCancel(BOOLEAN)
    \/ readReturn
    \/ receiveStop
    \/ handleReturn
    \/ handleReturnWait
    \/ handleReturnResolve
    \/ handleReturnSend
    \/ sendTake
    \/ sendOnSent
    \/ sendStop
    \/ shutdown
    \/ closer

Spec == Init /\ [][Next]_vars

\* The peer's side of the session: it bootstraps, calls, finishes, releases.
NextA ==
    \/ readAnswer
    \/ receiveStop
    \/ handleBootstrap
    \/ handleCall
    \/ handleCallInstall
    \/ handleCallRecvCall
    \/ Return
    \/ handleFinish
    \/ handleRelease
    \/ recvRelease
    \/ sendTake
    \/ sendOnSent
    \/ sendStop
    \/ shutdown
    \/ closer

SpecA == Init /\ [][NextA]_vars

\* The peer bootstraps, answers the first question with a capability of its
\* own or with one it was given, and echoes the Disembargo.
EmbargoMsgs ==
    {[NoMsg EXCEPT !.type = "return", !.cap = c] : c \in {"senderHosted", "receiverHosted"}}
       \cup {[NoMsg EXCEPT !.type = "disembargo"], [NoMsg EXCEPT !.type = "bootstrap"]}

\* The peer's Bootstrap, if it sends one, is its first message.
readEmbargo ==
    \E m \in EmbargoMsgs : (m.type = "bootstrap" => nIn = 0) /\ reader(m, MaxInE)

\* A session with pipelined calls and capabilities that come back.
NextE ==
    \/ Bootstrap(MaxBootE)
    \/ PipelineSend
    \/ wrapperCall
    \/ handleCancel({FALSE})
    \/ readEmbargo
    \/ receiveStop
    \/ handleBootstrap
    \/ handleReturn
    \/ handleReturnWait
    \/ handleReturnResolve
    \/ handleReturnSend
    \/ handleDisembargo
    \/ recvRelease
    \/ sendTake
    \/ sendOnSent
    \/ sendStop
    \/ shutdown
    \/ closer

SpecE == Init /\ [][NextE]_vars

\* The peer answers the first question or aborts.
AbortMsgs ==
    {[NoMsg EXCEPT !.type = "abort", !.perr = e] : e \in {"none", "read"}}
       \cup {[NoMsg EXCEPT !.type = "return"]}

readAbort == \E m \in AbortMsgs : reader(m, MaxInB)

NextB ==
    \/ Bootstrap(MaxQ)
    \/ handleCancel({FALSE})
    \/ readAbort
    \/ receiveStop
    \/ handleAbort
    \/ handleReturn
    \/ handleReturnWait
    \/ handleReturnResolve
    \/ handleReturnSend
    \/ sendTake
    \/ sendOnSent
    \/ sendStop
    \/ shutdown
    \/ closer

\* Every goroutine of the connection that can take a step eventually takes
\* one: the send and receive goroutines, the tasks and goroutines the
\* handlers fork, the monitor of NewConn, a shutdown that has started and the
\* goroutine it forks.  The application and the peer owe nothing.
FairB ==
    /\ WF_vars(handleCancel({FALSE}))
    /\ WF_vars(receiveStop)
    /\ WF_vars(handleAbort)
    /\ WF_vars(handleReturn)
    /\ WF_vars(handleReturnWait)
    /\ WF_vars(handleReturnResolve)
    /\ WF_vars(handleReturnSend)
    /\ WF_vars(sendTake)
    /\ WF_vars(sendOnSent)
    /\ WF_vars(sendStop)
    /\ WF_vars(shutdownStart(0))
    /\ \A c \in Callers : WF_vars(shutdownRun(c))
    /\ WF_vars(closer)

SpecB == Init /\ [][NextB]_vars /\ FairB

\* Both sides bootstrap; the peer may answer and finish before the
\* connection is shut down.
ShutMsgs ==
    {[NoMsg EXCEPT !.type = "bootstrap"], [NoMsg EXCEPT !.type = "return"]}
       \cup {[NoMsg EXCEPT !.type = "finish", !.releaseResultCaps = r] : r \in BOOLEAN}

readShut == \E m \in ShutMsgs : reader(m, MaxInS)

NextS ==
    \/ Bootstrap(MaxBootE)
    \/ handleCancel(BOOLEAN)
    \/ readShut
    \/ receiveStop
    \/ handleBootstrap
    \/ handleFinish
    \/ recvRelease
    \/ handleReturn
    \/ handleReturnWait
    \/ handleReturnResolve
    \/ handleReturnSend
    \/ sendTake
    \/ sendOnSent
    \/ sendStop
    \/ shutdown
    \/ closer

SpecS == Init /\ [][NextS]_vars

\* The peer bootstraps, calls, finishes and returns with ids that may be in
\* use or unknown.
TableMsgs ==
    {m \in BootstrapMsgs : m.id = 0} \cup {m \in CallMsgs : m.id <= 1 /\ m.target = 0}
       \cup {m \in FinishMsgs : m.id <= 1 /\ ~m.releaseResultCaps}
       \cup {[NoMsg EXCEPT !.type = "return"]}

readTable == \E m \in TableMsgs : reader(m, MaxInV)

NextV ==
    \/ readTable
    \/ receiveStop
    \/ handleBootstrap
    \/ handleCall
    \/ handleCallInstall
    \/ handleCallRecvCall
    \/ Return
    \/ handleFinish
    \/ handleReturn
    \/ sendTake
    \/ sendOnSent
    \/ sendStop
    \/ shutdown
    \/ closer

\* The goroutines of the connection take their steps; the application, which
\* owes the Return of a call in progress, and the peer owe nothing.
FairV ==
    /\ WF_vars(receiveStop)
    /\ WF_vars(handleBootstrap)
    /\ WF_vars(handleCall)
    /\ WF_vars(handleCallInstall)
    /\ WF_vars(handleCallRecvCall)
    /\ WF_vars(handleFinish)
    /\ WF_vars(handleReturn)
    /\ WF_vars(sendTake)
    /\ WF_vars(sendOnSent)
    /\ WF_vars(sendStop)
    /\ WF_vars(shutdownStart(0))
    /\ \A c \in Callers : WF_vars(shutdownRun(c))
    /\ WF_vars(closer)

SpecV == Init /\ [][NextV]_vars /\ FairV

\* The peer bootstraps, and sends a Call and a Return whose payloads carry
\* one or two capability descriptors; a receiverHosted descriptor names
\* export 0, which is in the table once the peer's Bootstrap was answered.
CapMsgs ==
    {[NoMsg EXCEPT !.type = "bootstrap"]}
       \cup {[NoMsg EXCEPT !.type = t, !.id = IF t = "call" THEN 1 ELSE 0,
                           !.cap = c[1], !.cap2 = c[2]] :
                 t \in {"call", "return"},
                 c \in {<<"receiverHosted", "none">>, <<"senderHosted", "receiverHosted">>}}

readCap == \E m \in CapMsgs : reader(m, MaxInC)

NextC ==
    \/ Bootstrap(MaxBootE)
    \/ handleCancel({FALSE})
    \/ readCap
    \/ receiveStop
    \/ handleBootstrap
    \/ handleCall
    \/ handleCallInstall
    \/ handleCallRecvCall
    \/ Return
    \/ handleReturn
    \/ handleReturnWait
    \/ handleReturnResolve
    \/ handleReturnSend
    \/ sendTake
    \/ sendOnSent
    \/ sendStop
    \/ shutdown
    \/ closer

SpecC == Init /\ [][NextC]_vars

\* The peer sends messages that cannot be read: the message itself, or the
\* params, results or target inside it.
ParseMsgs ==
    {[NoMsg EXCEPT !.type = t, !.perr = "read"] :
        t \in {"bootstrap", "call", "return", "finish", "release", "disembargo", "abort"}}
       \cup {[NoMsg EXCEPT !.type = t, !.perr = "body"] : t \in {"call", "return", "disembargo"}}

readParse == \E m \in ParseMsgs : reader(m, MaxInP)

NextP ==
    \/ Bootstrap(MaxBootE)
    \/ handleCancel({FALSE})
    \/ readParse
    \/ receiveStop
    \/ recvReadError
    \/ handleAbort
    \/ handleCall
    \/ handleCallInstall
    \/ handleReturn
    \/ handleReturnWait
    \/ handleReturnResolve
    \/ handleReturnSend
    \/ handleDisembargo
    \/ sendTake
    \/ sendOnSent
    \/ sendStop
    \/ shutdown
    \/ closer

SpecP == Init /\ [][NextP]_vars

\* ------------------------------------------------------------ server.Server
\* Server.start up to srv.mu.Lock(): the WaitGroup is incremented first.
\* Send and Recv are not called once Close has been.
startAdd(i) ==
    /\ srv.call[i].pc = "idle"
    /\ srv.closePc = "idle"
    /\ srv' = [srv EXCEPT !.calls = @ + 1, !.call[i].pc = "added"]
    /\ UNCHANGED connVars

\* newBlankStruct(m.ResultsSize) returns a struct or an error.
newBlankStructOk == BOOLEAN

\* srv.mu.Lock() returns; newBlankStruct; on an error start returns an error
\* answer and the deferred Unlock runs, otherwise the goroutine of the method
\* is forked and start waits in its select.
startLock(i) ==
    /\ srv.call[i].pc = "added"
    /\ srv.mu = 0
    /\ \E ok \in newBlankStructOk :
          srv' = IF ok
                 THEN [srv EXCEPT !.mu = i, !.nLocked = @ + 1,
                                  !.call[i].order = srv.nLocked + 1,
                                  !.call[i].pc = "select",
                                  !.call[i].impl = "forked"]
                 ELSE [srv EXCEPT !.nLocked = @ + 1,
                                  !.call[i].order = srv.nLocked + 1,
                                  !.call[i].pc = "failed"]
    /\ UNCHANGED connVars

\* the forked goroutine is scheduled: m.Impl begins
Impl(i) ==
    /\ srv.call[i].impl = "forked"
    /\ srv' = [srv EXCEPT !.call[i].impl = "running"]
    /\ UNCHANGED connVars

\* server.Ack called by the method: ackSignal.signal closes the channel once.
Ack(i) ==
    /\ srv.call[i].impl = "running"
    /\ ~srv.call[i].acked
    /\ srv' = [srv EXCEPT !.call[i].acked = TRUE]
    /\ UNCHANGED connVars

\* m.Impl returns: the promise is rejected or fulfilled, srv.calls.Done().
ImplReturn(i) ==
    /\ srv.call[i].impl = "running"
    /\ srv' = [srv EXCEPT !.call[i].impl = "done", !.calls = @ - 1]
    /\ UNCHANGED connVars

\* the caller cancels the context it passed to Send or Recv
ctxCancel(i) ==
    /\ srv.call[i].pc \in {"added", "select"}
    /\ ~srv.call[i].ctxDone
    /\ srv' = [srv EXCEPT !.call[i].ctxDone = TRUE]
    /\ UNCHANGED connVars

\* the select of Server.start: acksig.c, ans.Done() or ctx.Done()
select(c) == c.acked \/ c.impl = "done" \/ c.ctxDone

\* Server.start returns the answer; the deferred srv.mu.Unlock() runs.
startReturn(i) ==
    /\ srv.call[i].pc = "select"
    /\ select(srv.call[i])
    /\ srv' = [srv EXCEPT !.mu = 0, !.call[i].pc = "returned"]
    /\ UNCHANGED connVars

\* Server.Close is called
Close ==
    /\ srv.closePc = "idle"
    /\ srv' = [srv EXCEPT !.closePc = "wait"]
    /\ UNCHANGED connVars

\* srv.calls.Wait() returns
callsWait ==
    /\ srv.closePc = "wait"
    /\ srv.calls = 0
    /\ srv' = [srv EXCEPT !.closePc = "closer"]
    /\ UNCHANGED connVars

\* srv.closer.Close(), and Server.Close returns
closerClose ==
    /\ srv.closePc = "closer"
    /\ srv' = [srv EXCEPT !.closePc = "returned", !.closerCalls = @ + 1]
    /\ UNCHANGED connVars

NextServer ==
    \/ \E i \in SCalls : startAdd(i)
    \/ \E i \in SCalls : startLock(i)
    \/ \E i \in SCalls : Impl(i)
    \/ \E i \in SCalls : Ack(i)
    \/ \E i \in SCalls : ImplReturn(i)
    \/ \E i \in SCalls : ctxCancel(i)
    \/ \E i \in SCalls : startReturn(i)
    \/ Close
    \/ callsWait
    \/ closerClose

SpecServer == Init /\ [][NextServer]_vars

\* ------------------------------------------------------------ properties
tablesEmpty ==
    /\ \A id \in QIds : questions[id] = 0
    /\ \A a \in AIds : answers[a].st = "nil"
    /\ \A e \in EIds : exports[e] = 0
    /\ \A m \in MIds : embargoes[m] = 0
    /\ \A i \in IIds : imports[i] = 0

someCloseReturned == \E c \in Callers : c # 0 /\ shPc[c] = "returned"

\* C1: whenever Done has fired or a Close call has returned, the tables hold
\* no entry and the transport has been closed.
C1_DoneImpliesReleased ==
    (closed \/ someCloseReturned) => (tablesEmpty /\ transportClosed)

\* C2: once Done has fired no onSent callback, no resolution or rejection of
\* a question's promise and no cancel of an answer is invoked.
C2_NoCallbackAfterDone == [][closed => ev' = ev]_vars

\* C3: however many callers shutdown has, each teardown step runs at most
\* once and at most one Abort is written to the transport.
C3_ShutdownIdempotent ==
    /\ \A s \in DOMAIN steps : steps[s] <= 1
    /\ Cardinality({n \in 1..Len(wire) : wire[n].kind = "abort"}) <= 1

C3_Witness ==
    /\ Cardinality({c \in Callers : shPc[c] = "returned"}) >= 2
    /\ steps["release"] = 1

C5_IdRecycledAfterReturnAndFinish ==
    \A i \in QObj :
       q[i].hc # "none" =>
          /\ q[i].freed <= 1
          /\ q[i].freed = 1 => (q[i].gotReturn /\ q[i].finishSent /\ q[i].finishMsgSend)

\* the cancel-versus-Return race: the Return found the question finished, and
\* the id has gone back
C5_Witness ==
    \E i \in QObj : q[i].freed = 1 /\ q[i].gotReturn /\ q[i].ret = "none" /\ q[i].hc = "done"

\* C6 as stated: every answer that left the table had returnSent and
\* finishReceived set at that moment.
C6_DestroyedOnlyReturnedAndFinished ==
    \A d \in destroyed : d.returnSent /\ d.finishReceived

\* C6 amended: an answer destroyed by the Finish handler or by Return had
\* returnSent and finishReceived set, and a Finish for an answer whose Return
\* has not been sent leaves the entry in the table; shutdown's release takes
\* the remaining answers out whatever their flags.
C6_DestroyedOutsideShutdown ==
    /\ [](\A d \in destroyed : d.by # "release" => (d.returnSent /\ d.finishReceived))
    /\ [][\A a \in AIds :
            (/\ answers[a].st = "live"
             /\ ~answers[a].returnSent
             /\ incoming.type = "finish" /\ incoming.id = a
             /\ nTaken' = nTaken + 1)
               => (answers'[a].st = "live" /\ answers'[a].finishReceived)]_vars

\* the Finish came first and Return destroyed the answer; shutdown destroyed
\* another
C6_Witness ==
    /\ \E d \in destroyed : d.by = "return"
    /\ \E d \in destroyed : d.by = "release"

inExports(e) == \E id \in EIds : exports[id] = e

\* C7: an accepted Release(id, n) lowers the entry's count by n; at zero the
\* entry is erased in the lock region and its client is released after it,
\* once, and neither a later Release nor shutdown releases it again.
C7_ReleaseExactlyOnce ==
    /\ [](\A e \in EObj :
            /\ expent[e].released <= 1
            /\ expent[e].released = 1 => ~inExports(e)
            /\ (expent[e].st = "erased" /\ e \notin hold.exports) => expent[e].released = 1
            /\ (expent[e].st = "live" /\ inExports(e)) => expent[e].wireRefs > 0)
    /\ [][(recvPc = "idle" /\ incoming.type = "release" /\ nTaken' = nTaken + 1
           /\ recvPc' # "done")
            => LET e == exports[incoming.id] IN
               /\ expent'[e].wireRefs = expent[e].wireRefs - incoming.n
               /\ expent'[e].released = expent[e].released
               /\ IF expent'[e].wireRefs = 0
                  THEN exports'[incoming.id] = 0 /\ e \in hold'.exports /\ recvPc' = "rl"
                  ELSE exports'[incoming.id] = e /\ recvPc' = "idle"]_vars

\* a Release erased an entry, its client was released, and shutdown has run
\* its release of the remaining exports since
C7_Witness ==
    /\ \E e \in EObj : expent[e].st = "erased" /\ expent[e].released = 1
    /\ \E c \in Callers : shPc[c] \in {"abort", "waitClosed", "returned"}
    /\ steps["release"] = 1

\* C9: receive takes a message only after the handler of the previous one
\* has returned, takes them in transport order, and the Calls reach RecvCall
\* in the order the peer sent them.
C9_OneAtATimeInOrder ==
    /\ [](/\ nTaken - nHandled \in {0, 1}
          /\ (recvPc # "done" /\ incoming # NoMsg) => incoming.seq = nTaken + 1
          /\ \A a, b \in 1..Len(delivered) : a < b => delivered[a].seq < delivered[b].seq)
    /\ [][nTaken' = nTaken + 1 => nTaken = nHandled]_vars

\* two Calls on the same target have been handed to it
C9_Witness ==
    \E a, b \in 1..Len(delivered) : a < b /\ delivered[a].target = delivered[b].target

\* C8 as stated: every capability returned on a path that had been
\* pipelined is replaced by a wrapper, and only the Disembargo lifts it.
C8_EveryPipelinedCapEmbargoed ==
    /\ \A i \in QObj :
          (q[i].ret # "none" /\ q[i].calledAtReturn /\ q[i].cap # "none")
             => q[i].wrapper # 0
    /\ \A m \in MObj : emb[m].st = "lifted" => emb[m].by = "disembargo"

\* C8 amended: a capability local to this vat that is returned on a path that
\* had been pipelined is replaced by a wrapper; no call made through the
\* wrapper is delivered before its lift; the lift runs once, either after a
\* receiverLoopback Disembargo that carries the embargo's id or in shutdown's
\* release.
C8_LocalCapEmbargoed ==
    /\ [](\A i \in QObj :
            (q[i].ret # "none" /\ q[i].calledAtReturn /\ q[i].cap = "local")
               => (q[i].wrapper # 0 /\ emb[q[i].wrapper].st # "none"))
    /\ [](\A m \in MObj :
            /\ emb[m].delivered > 0 => emb[m].st = "lifted"
            /\ emb[m].lifts <= 1)
    /\ [][\A m \in MObj :
            (emb[m].st = "embargoed" /\ emb'[m].st = "lifted")
               => \/ recvPc = "rl" /\ m \in hold.embargoes
                  \/ \E c \in Callers : shPc[c] = "rlRelease" /\ m \in rl.embargoes]_vars
    /\ [][\A m \in MObj :
            (m \in hold'.embargoes /\ m \notin hold.embargoes)
               => (/\ incoming.type = "disembargo"
                   /\ emb[m].id = incoming.id
                   /\ embargoes[incoming.id] = m
                   /\ embargoes'[incoming.id] = 0)]_vars

\* a call was made through the wrapper and the Disembargo has delivered it
C8_Witness ==
    \E m \in MObj : emb[m].by = "disembargo" /\ emb[m].delivered >= 1

sentJobs == SelectSeq(wire, LAMBDA j : j.kind # "abort")

\* C10: the queue and the transport hold the jobs in the order sendMessage
\* enqueued them, and the send goroutine takes a job only after it has run
\* the onSent of the one before.
C10_SentInEnqueueOrder ==
    /\ [](/\ \A a, b \in 1..Len(sendq) : a < b => sendq[a].seq < sendq[b].seq
          /\ \A a, b \in 1..Len(sentJobs) : a < b => sentJobs[a].seq < sentJobs[b].seq
          /\ \A a \in 1..Len(sentJobs), b \in 1..Len(sendq) : sentJobs[a].seq < sendq[b].seq
          /\ sendCur.job # NoJob =>
                /\ \A b \in 1..Len(sendq) : sendCur.job.seq < sendq[b].seq
                /\ \A a \in 1..Len(sentJobs) : sentJobs[a].seq <= sendCur.job.seq)
    /\ [][(sendCur'.job # sendCur.job /\ sendCur'.job # NoJob) => sendCur.job = NoJob]_vars

\* two jobs have been written, and a third is waiting in the queue
C10_Witness == Len(sentJobs) >= 2 /\ sendq # <<>>

\* C11 as stated: c.bgctx is canceled only by the step of shutdown that sets
\* the closing flag, so whenever it is canceled the flag is set.
C11_BgctxDoneImpliesClosing == bgctxDone => closing

\* C12: a call of Bootstrap made while the connection is closing returns an
\* error client and changes nothing else: no question enters the table, no
\* id is taken, no job is enqueued and c.tasks keeps its value.
C12_BootstrapWhenClosing ==
    [][\A i \in QObj :
          (closing /\ q[i].st = "none" /\ q'[i].st # "none")
             => /\ q'[i] = [NoQuestion EXCEPT !.st = "errclient"]
                /\ \A j \in QObj : j # i => q'[j] = q[j]
                /\ questions' = questions
                /\ questionID' = questionID
                /\ sendq' = sendq
                /\ nextSeq' = nextSeq
                /\ tasks' = tasks]_vars

\* Bootstrap has returned an error client while shutdown was under way
C12_Witness ==
    /\ closing
    /\ \E i \in QObj : q[i].st = "errclient"
    /\ \E c \in Callers : shPc[c] \in {"tasksWait", "drain", "release"}

abortReceived == [what |-> "remote abort", type |-> "abort"] \in reported

\* the teardown of shutdown is complete
shutDown ==
    /\ closed
    /\ transportClosed
    /\ tablesEmpty
    /\ rl = EmptyRl
    /\ \E c \in Callers : shPc[c] = "returned"

releaseDone ==
    /\ steps["release"] = 1
    /\ \A c \in Callers : shPc[c] # "rlRelease"

\* the Return for question i was received before its Bootstrap was written
returnedUnsent(i) == q[i].gotReturn /\ q[i].hc = "none"

C15_ParseErrorNeverStops ==
    [][(recvPc = "idle" /\ incoming.perr # "none" /\ nTaken' = nTaken + 1)
          => recvPc' # "done"]_vars

\* the message receive is about to take breaks a table invariant
violation ==
    /\ recvPc = "idle"
    /\ incoming # NoMsg
    /\ readOk(incoming)
    /\ \/ incoming.type \in {"bootstrap", "call"} /\ answers[incoming.id].st # "nil"
       \/ incoming.type = "return" /\ questions[incoming.id] = 0
       \/ incoming.type = "finish" /\ (answers[incoming.id].st = "nil"
                                           \/ answers[incoming.id].finishReceived)

\* the error its handler returns
violationErr ==
    CASE incoming.type = "bootstrap" -> "bootstrapReused"
      [] incoming.type = "call" -> "callReused"
      [] incoming.type = "return" -> "questionNotFound"
      [] incoming.type = "finish" /\ answers[incoming.id].st = "nil" -> "answerNotFound"
      [] OTHER -> "finishTwice"

abortsOnWire == {n \in 1..Len(wire) : wire[n].kind = "abort"}

callRunning == \E id \in AIds : answers[id].st = "live" /\ answers[id].running

payloadRefused == \E r \in reported : r.what = "parse" /\ r.type \in {"call", "return"}

\* C17 as stated: a payload naming an unknown export fails the connection:
\* receive has returned an error.
C17_UnknownExportFails ==
    payloadRefused => (recvPc = "done" /\ gErr \notin {"none", "canceled"})

\* C18 as stated: nothing the application supplies runs, and no transport
\* I/O or wait happens, while c.lk is held.
C18_NothingUnderLock == underLock = {}

\* the message a step has just written to the transport
written == wire'[Len(wire')]

queued(n) == \E i \in 1..Len(sendq) : sendq[i].seq = n

\* the send goroutine has called send() for job n and not yet onSent
sending(n) == sendPc = "sent" /\ sendCur.job.seq = n

\* job n was written to the transport
onWire(n) == \E i \in 1..Len(wire) : wire[i].seq = n

\* C20: a job still in the queue has seen nothing; a job the send goroutine
\* is sending has had its one send attempt and neither onSent nor release;
\* every other job was either sent once or aborted once, never both, its
\* release ran once, and its onSent, if it has one, ran once: with nil or a
\* failure according to whether the message was written when sent, with a
\* disconnected error and nothing written when aborted.
C20_JobSettledOnce ==
    \A n \in 1..Len(jobs) :
       LET j == jobs[n]
           has == j.kind \in {"bootstrap", "call", "finish", "cancelFinish", "disembargo"} IN
       IF queued(n)
       THEN j = [NoJobLog EXCEPT !.kind = j.kind]
       ELSE IF sending(n)
       THEN j = [NoJobLog EXCEPT !.kind = j.kind, !.sends = 1]
       ELSE /\ j.sends + j.aborts = 1
            /\ j.releases = 1
            /\ j.onSents = IF has THEN 1 ELSE 0
            /\ j.aborts = 1 => (~onWire(n) /\ (has => j.err = "disconnected"))
            /\ j.sends = 1 => (has => j.err = IF onWire(n) THEN "nil" ELSE "failed")
            /\ ~has => j.err = "none"

\* shutdown aborted a job that has an onSent, and the send goroutine sent a
\* Return and failed to write another job
C20_Witness ==
    /\ \E n \in 1..Len(jobs) : jobs[n].aborts = 1 /\ jobs[n].err = "disconnected"
    /\ \E n \in 1..Len(jobs) : jobs[n].sends = 1 /\ jobs[n].kind = "return" /\ jobs[n].releases = 1
    /\ \E n \in 1..Len(jobs) : jobs[n].sends = 1 /\ jobs[n].err = "failed"

\* the method of call i has returned or has called Ack
acknowledged(i) == srv.call[i].impl = "done" \/ srv.call[i].acked

\* C21 as stated: when the method of a call begins, the method of every call
\* that took the Server's mutex before it has returned or called Ack.
C21_CallsInOrder ==
    [][\A i \in SCalls :
          (srv.call[i].impl = "forked" /\ srv'.call[i].impl = "running")
             => \A j \in SCalls :
                   (srv.call[j].impl # "none" /\ srv.call[j].order < srv.call[i].order)
                      => acknowledged(j)]_vars

\* every call that was started has finished: its method has returned, or
\* start returned an error before forking it
allCallsFinished ==
    \A i \in SCalls :
       \/ srv.call[i].pc = "idle"
       \/ srv.call[i].pc = "failed"
       \/ srv.call[i].pc = "returned" /\ srv.call[i].impl = "done"

\* C22 as stated: once every started call has finished, the failed ones
\* included, nothing keeps Close from calling the Closer and returning.
C22_CloseNotBlocked ==
    (srv.closePc = "wait" /\ allCallsFinished) => srv.calls = 0

\* The peer bootstraps, calls the bootstrap capability, and pipelines calls on
\* answers: answers that have returned, that are still running, that it has
\* finished, that do not exist, and the answer of the pipelined Call itself.
PipelineMsgs ==
    {m \in BootstrapMsgs : m.id = 0}
       \cup {m \in CallMsgs : m.id \in {1, 2} /\ m.target = 0}
       \cup {[NoMsg EXCEPT !.type = "call", !.id = id, !.target = t, !.promised = TRUE] :
                 id \in {1, 2}, t \in AIds}
       \cup {m \in FinishMsgs : m.id <= 1}

\* The peer's Bootstrap, if it sends one, is its first message.
readPipeline ==
    \E m \in PipelineMsgs : (m.type = "bootstrap" => nIn = 0) /\ reader(m, MaxInL)

NextL ==
    \/ readPipeline
    \/ receiveStop
    \/ handleBootstrap
    \/ handleCall
    \/ handleCallInstall
    \/ handleCallRecvCall
    \/ handleCallPipelineRecv
    \/ Return
    \/ handleFinish
    \/ sendTake
    \/ sendOnSent
    \/ sendStop
    \/ shutdown
    \/ closer

SpecL == Init /\ [][NextL]_vars

\* C23: whenever handleCall dispatches a Call through the pipeline caller of
\* the answer its promisedAnswer target names, whose results are not ready,
\* that pipeline caller has been installed.
C23_PipelineCallerInstalled ==
    recvPc = "pipelineRecv" => answers[cur.target].pcall

\* the Call the handler holds names a target that is not there: an export id
\* without table entry, or an answer, other than the one this Call creates,
\* that is not in the table or has received its Finish
unresolved ==
    /\ recvPc = "install"
    /\ cur.perr # "body"
    /\ IF cur.promised
       THEN cur.target # cur.id
               /\ (answers[cur.target].st = "nil" \/ answers[cur.target].finishReceived)
       ELSE exports[cur.target] = 0

finishes(a) ==
    /\ recvPc = "idle"
    /\ incoming.type = "finish"
    /\ incoming.id = a
    /\ nTaken' = nTaken + 1

\* C30: the step of the Finish handler on a live answer that has no Finish
\* yet sets finishReceived, sets releaseResultCaps as the message asks, and
\* calls the answer's cancel if there is one (an answer whose Return was sent
\* is destroyed in the same step); a second Finish changes no answer and
\* stops the receive goroutine; and no Call is dispatched to a promisedAnswer
\* target that has received its Finish.
C30_FinishFlagsOnce ==
    /\ [][\A a \in AIds :
            (finishes(a) /\ answers[a].st = "live" /\ ~answers[a].finishReceived)
               => /\ ev'.cancel = ev.cancel + (IF answers[a].cancel THEN 1 ELSE 0)
                  /\ IF answers[a].returnSent
                     THEN answers'[a].st = "nil"
                     ELSE answers' = [answers EXCEPT
                                        ![a].finishReceived = TRUE,
                                        ![a].releaseResultCaps = incoming.releaseResultCaps]]_vars
    /\ [][\A a \in AIds :
            (finishes(a) /\ answers[a].finishReceived)
               => (answers' = answers /\ ev' = ev /\ recvPc' = "done")]_vars
    /\ [][(recvPc = "install" /\ recvPc' \in {"recvCall", "pipelineRecv"} /\ cur.promised)
            => (answers'[cur.target].st = "live" /\ ~answers'[cur.target].finishReceived)]_vars

\* a running call was canceled by its Finish, which asked for the release of
\* the result capabilities, and a later Call that named it was refused
C30_Witness ==
    /\ ev.cancel > 0
    /\ \E a \in AIds :
          /\ answers[a].finishReceived /\ answers[a].releaseResultCaps
          /\ \E b \in AIds \ {a} : answers[b].st = "live" /\ ~answers[b].msgReleaser
                                      /\ ~answers[b].returnSent /\ ~answers[b].running
    /\ recvPc = "done"
    /\ gErr = "fail"

\* The peer bootstraps, calls the bootstrap capability, and sends Calls that
\* ask for their results to go elsewhere, with a fresh answer id and with the
\* id of the call in progress.
ElsewhereMsgs ==
    {m \in BootstrapMsgs : m.id = 0}
       \cup {m \in CallMsgs : m.id = 1 /\ m.target = 0}
       \cup {[m EXCEPT !.sendResultsTo = "yourself"] : m \in {c \in CallMsgs : c.id \in {1, 2}}}

readElsewhere ==
    \E m \in ElsewhereMsgs : (m.type = "bootstrap" => nIn = 0) /\ reader(m, MaxInU)

NextU ==
    \/ readElsewhere
    \/ receiveStop
    \/ handleBootstrap
    \/ handleCall
    \/ handleCallInstall
    \/ handleCallRecvCall
    \/ handleCallSendTx
    \/ Return
    \/ sendTake
    \/ sendOnSent
    \/ sendStop
    \/ shutdown
    \/ closer

SpecU == Init /\ [][NextU]_vars

\* the handler of a Call with sendResultsTo other than caller returns
refuses == recvPc = "sendTx" /\ recvPc' # "sendTx"

\* C28: a Call with sendResultsTo other than caller is answered with an
\* unimplemented message, which is in the queue behind the jobs that were in
\* it when the handler returns; no answer is entered, no client receives a
\* call, and the receive goroutine goes on to the next message.
C28_UnimplementedReply ==
    /\ [][(recvPc = "idle" /\ incoming.type = "call" /\ readOk(incoming)
             /\ incoming.sendResultsTo # "caller" /\ nTaken' = nTaken + 1)
            => (recvPc' = "sendTx" /\ answers' = answers /\ delivered' = delivered
                   /\ tasks' = tasks /\ gErr' = gErr)]_vars
    /\ [][refuses
            => /\ recvPc' = "idle"
               /\ answers' = answers /\ delivered' = delivered
               /\ tasks' = tasks /\ gErr' = gErr
               /\ sendq' = Append(sendq, [kind |-> "unimplementedCall", q |-> 0,
                                            seq |-> nextSeq'])]_vars

\* The peer bootstraps, and answers the questions with a capability of its
\* own, with one it was given, or with an exception.
ResultMsgs ==
    {[NoMsg EXCEPT !.type = "bootstrap"]}
       \cup {[NoMsg EXCEPT !.type = "return", !.cap = c] :
                 c \in {"senderHosted", "receiverHosted"}}
       \cup {[NoMsg EXCEPT !.type = "return", !.exc = TRUE]}

readResult ==
    \E m \in ResultMsgs : (m.type = "bootstrap" => nIn = 0) /\ reader(m, MaxInF)

NextF ==
    \/ Bootstrap(MaxBootE)
    \/ PipelineSend
    \/ handleCancel({FALSE})
    \/ readResult
    \/ receiveStop
    \/ handleBootstrap
    \/ handleReturn
    \/ handleReturnWait
    \/ handleReturnResolve
    \/ handleReturnSend
    \/ sendTake
    \/ sendOnSent
    \/ sendStop
    \/ shutdown
    \/ closer

SpecF == Init /\ [][NextF]_vars

\* C25: the goroutine of a Return that was not canceled resolves the promise
\* of the question, and then, in one step under the lock, enqueues the
\* Disembargo of the Return, if there is one, and behind it the Finish; on the
\* transport the Disembargo of a question comes before its Finish, and that
\* Finish has releaseResultCaps = false.
C25_DisembargoBeforeFinish ==
    /\ [][\A i \in QObj :
            (q[i].ret = "send" /\ q'[i].ret = "done")
               => /\ q[i].p # "pending"
                  /\ q[i].settled >= 1
                  /\ LET dis == IF q[i].disembargo
                                THEN <<[buildDisembargo(K, i) EXCEPT !.seq = nextSeq + 1]>>
                                ELSE <<>> IN
                     sendq' = sendq \o dis
                                 \o <<[buildFinish(i) EXCEPT !.seq = nextSeq + Len(dis) + 1]>>]_vars
    /\ [](\A a, b \in 1..Len(wire) :
            (wire[a].kind = "finish" /\ wire[b].kind = "disembargo" /\ wire[a].q = wire[b].q)
               => b < a)
    /\ [](\A a \in 1..Len(wire) : wire[a].kind = "finish" => ~wire[a].releaseResultCaps)

\* the Disembargo and the Finish of a question are on the transport
C25_Witness ==
    \E a, b \in 1..Len(wire) :
       wire[a].kind = "disembargo" /\ wire[b].kind = "finish" /\ wire[a].q = wire[b].q

\* The lists of called transforms and the cap tables that results are parsed
\* with: a transform may be in the list twice, two transforms may lead to the
\* same slot, to a slot outside the table or to no capability.
CalledLists == UNION {[1..n -> Paths] : n \in 0..MaxCalled}
CapTables == UNION {[1..n -> Clients] : n \in 0..MaxCaps}

\* The receive goroutine parses the results of a Return for question 0, for
\* any list of called transforms, content and cap table.
parseReturn0 ==
    /\ recvPc = "idle"
    /\ pr.n < MaxReturns
    /\ \E called \in CalledLists, at \in [Paths -> 0..(MaxCaps + 1)], mtab \in CapTables :
          /\ Cardinality({m \in MObj : emb[m].st = "none"}) >= Len(called)
          /\ LET r == parseResults(K, called, at, mtab, 0) IN
             Commit([r.k EXCEPT !.pr = [n |-> pr.n + 1, called |-> called, at |-> at,
                                        mtab |-> mtab, out |-> r.mtab,
                                        wrappers |-> r.wrappers,
                                        disembargoes |-> r.disembargoes]])
    /\ UNCHANGED <<shutVars, recvVars, sendPc, sendCur, wire, bgctxDone, gErr>>

readDisembargo == \E m \in DisembargoMsgs : reader(m, MaxInR)

NextR ==
    \/ parseReturn0
    \/ readDisembargo
    \/ handleDisembargo
    \/ recvRelease

SpecR == Init /\ [][NextR]_vars

\* the slots of the parsed cap table that got an embargo
embargoedSlots == {s \in 1..Len(pr.mtab) : pr.wrappers[s] # 0}

\* a called transform leads to slot s
reached(s) == \E n \in 1..Len(pr.called) : pr.at[pr.called[n]] = s

\* C24: parsing results embargoes a slot of the cap table exactly when a
\* called transform leads to it and its client is not the null client, an
\* import or pipeline client of this connection or an error client; every
\* embargoed slot has one wrapper and one senderLoopback, however many called
\* transforms lead to it; the ids of the embargoes differ, were not in use
\* before, and name the wrappers in the table afterwards.
C24_EmbargoLocalCalledSlots ==
    /\ [](pr.n > 0 =>
            /\ \A s \in 1..Len(pr.mtab) :
                  /\ s \in embargoedSlots
                        <=> (reached(s)
                               /\ pr.mtab[s] \notin {"none", "import", "pipeline", "error"})
                  /\ pr.out[s] = IF s \in embargoedSlots THEN "embargo" ELSE pr.mtab[s]
            /\ Len(pr.disembargoes) = Cardinality(embargoedSlots)
            /\ \A s \in embargoedSlots :
                  Cardinality({n \in 1..Len(pr.disembargoes) :
                                  pr.at[pr.disembargoes[n].transform] = s}) = 1
            /\ \A a, b \in 1..Len(pr.disembargoes) :
                  pr.disembargoes[a].id = pr.disembargoes[b].id => a = b)
    /\ [][pr'.n = pr.n + 1 =>
             \A n \in 1..Len(pr'.disembargoes) :
                LET d == pr'.disembargoes[n] IN
                /\ embargoes[d.id] = 0
                /\ d.id \notin idgenLive(embargoID)
                /\ d.id \in idgenLive(embargoID')
                /\ embargoes'[d.id] = pr'.wrappers[pr'.at[d.transform]]
                /\ emb'[embargoes'[d.id]].id = d.id
                /\ d.question = 0]_vars

\* two called transforms led to one local slot, which got one embargo
C24_Witness ==
    /\ pr.n = 1
    /\ Len(pr.called) = 2
    /\ pr.called[1] # pr.called[2]
    /\ pr.at[pr.called[1]] = pr.at[pr.called[2]]
    /\ pr.at[pr.called[1]] \in embargoedSlots
    /\ Len(pr.disembargoes) = 1

\* the Disembargo handler takes its step
disembargoes == recvPc = "idle" /\ incoming.type = "disembargo" /\ nTaken' = nTaken + 1

\* C26: the handler of a receiverLoopback Disembargo whose id is in the
\* embargo table takes the entry out and gives the id back to the allocator
\* in its lock region, and lifts the embargo in the step after it, once; for
\* an id that is not in the table, one already lifted included, it changes
\* no table and the receive goroutine returns an error.
C26_DisembargoLiftsOnce ==
    /\ [][(disembargoes /\ embargoes[incoming.id] # 0) =>
             LET m == embargoes[incoming.id] IN
             /\ embargoes' = [embargoes EXCEPT ![incoming.id] = 0]
             /\ incoming.id \in idgenLive(embargoID)
             /\ incoming.id \notin idgenLive(embargoID')
             /\ emb' = emb
             /\ hold'.embargoes = {m}
             /\ recvPc' = "rl"]_vars
    /\ [][(disembargoes /\ embargoes[incoming.id] = 0) =>
             /\ UNCHANGED <<embargoes, embargoID, emb, imports, questVars, ansVars>>
             /\ recvPc' = "done"
             /\ gErr' # "none"]_vars
    /\ [][\A m \in MObj :
            emb'[m] # emb[m] /\ emb[m].st # "none"
               => /\ recvPc = "rl" /\ m \in hold.embargoes /\ hold' = EmptyRl
                  /\ emb[m].st = "embargoed" /\ emb'[m].st = "lifted"
                  /\ emb'[m].lifts = 1]_vars
    /\ [](\A m \in MObj : m \in hold.embargoes => (recvPc = "rl" /\ emb[m].lifts = 0))

\* an embargo was lifted by its Disembargo, and a second Disembargo with the
\* same id has failed the connection
C26_Witness ==
    /\ \E m \in MObj : emb[m].st = "lifted" /\ emb[m].by = "disembargo" /\ emb[m].lifts = 1
    /\ \A m \in MObj : emb[m].st # "embargoed"
    /\ recvPc = "done"
    /\ gErr = "fail"

\* The peer bootstraps, calls the bootstrap capability with a capability of
\* its own in the parameters, and sends senderLoopback Disembargoes for
\* promised answers and for an import.
LoopbackMsgs ==
    {[NoMsg EXCEPT !.type = "bootstrap"]}
       \cup {[NoMsg EXCEPT !.type = "call", !.id = 1, !.cap = "senderHosted"]}
       \cup {[NoMsg EXCEPT !.type = "disembargo", !.context = "senderLoopback", !.id = 1,
                           !.promised = TRUE, !.target = a, !.at = t] :
                 a \in AIds, t \in {0, 1}}
       \cup {[NoMsg EXCEPT !.type = "disembargo", !.context = "senderLoopback", !.id = 1,
                           !.at = 1]}

readLoopback ==
    \E m \in LoopbackMsgs : (m.type = "bootstrap" => nIn = 0) /\ reader(m, MaxInD)

NextD ==
    \/ readLoopback
    \/ receiveStop
    \/ handleBootstrap
    \/ handleCall
    \/ handleCallInstall
    \/ handleCallRecvCall
    \/ ReturnOf({"data", "import", "local"})
    \/ handleDisembargo
    \/ handleDisembargoLoopback
    \/ sendTake
    \/ sendOnSent
    \/ sendStop
    \/ shutdown
    \/ closer

SpecD == Init /\ [][NextD]_vars

\* the target of the senderLoopback Disembargo m is a promised answer that is
\* in the table, has sent its Return and no exception, and the transform
\* leads to a capability of the results that is an import of this connection
loopsBack(m) ==
    /\ m.promised
    /\ answers[m.target].st = "live"
    /\ answers[m.target].returnSent
    /\ ~answers[m.target].err
    /\ m.at = 1
    /\ answers[m.target].results = "import"

\* C27: the handler of a senderLoopback Disembargo enqueues a receiverLoopback
\* Disembargo with the same id, targeted at the import, exactly when the
\* target is a promised answer with its Return sent and no exception whose
\* transform leads to an import of this connection; otherwise it enqueues
\* nothing and the receive goroutine returns an error; no table changes in
\* either case.
C27_SenderLoopbackEchoed ==
    /\ [][(disembargoes /\ incoming.context = "senderLoopback") =>
             /\ UNCHANGED <<questVars, ansVars, embVars, sendq>>
             /\ \/ recvPc' = "done" /\ gErr' # "none" /\ ~loopsBack(incoming)
                \/ /\ recvPc' = "loopback"
                   /\ cur'.id = incoming.id
                   /\ cur'.cap = "import" <=> loopsBack(incoming)]_vars
    /\ [][(recvPc = "loopback" /\ recvPc' # "loopback") =>
             /\ UNCHANGED <<questVars, ansVars, embVars>>
             /\ IF cur.cap = "import"
                THEN /\ recvPc' = "idle"
                     /\ gErr' = gErr
                     /\ sendq' = Append(sendq,
                                        [kind |-> "disembargo", q |-> 0, seq |-> nextSeq',
                                         msg |-> cur.seq,
                                         context |-> "receiverLoopback", id |-> cur.id,
                                         importedCap |-> 0])
                ELSE /\ recvPc' = "done"
                     /\ gErr' # "none"
                     /\ sendq' = sendq]_vars

\* the Disembargo sent back is on the transport
C27_Witness ==
    \E n \in 1..Len(wire) :
       /\ wire[n].kind = "disembargo"
       /\ wire[n].context = "receiverLoopback"
       /\ wire[n].id = 1
       /\ wire[n].importedCap = 0

\* The peer bootstraps again and again and finishes; the transport may have
\* no message for a Return.
readBootstrap == \E m \in BootstrapMsgs \cup FinishMsgs : reader(m, MaxInT)

NextT ==
    \/ readBootstrap
    \/ receiveStop
    \/ handleBootstrapOf(BOOLEAN)
    \/ handleFinish
    \/ recvRelease
    \/ sendTake
    \/ sendOnSent
    \/ sendStop
    \/ shutdown
    \/ closer

SpecT == Init /\ [][NextT]_vars

\* receive takes a Bootstrap whose answer id is free
bootstraps ==
    /\ recvPc = "idle"
    /\ incoming.type = "bootstrap"
    /\ readOk(incoming)
    /\ answers[incoming.id].st = "nil"
    /\ nTaken' = nTaken + 1

\* in the step, the answer id got an entry whose Return is enqueued: with an
\* exception if there is no bootstrap client, otherwise with one more
\* reference to the bootstrap client exported; receive is ready for the next
\* message, nothing was delivered to the application and no task was added
returnsBootstrap(id) ==
    /\ answers'[id].st = "live"
    /\ answers'[id].returnSent
    /\ sendq' = Append(sendq, [kind |-> "return", q |-> id, seq |-> nextSeq + 1])
    /\ answers'[id].err = ~bootstrap
    /\ bootstrap =>
          \E e \in EIds :
             /\ answers'[id].caps = {e}
             /\ exports'[e] # 0
             /\ expent'[exports'[e]].wireRefs =
                   (IF exports[e] # 0 THEN expent[exports[e]].wireRefs ELSE 0) + 1
    /\ ~bootstrap => answers'[id].caps = {} /\ exports' = exports /\ expent' = expent
    /\ recvPc' = "idle"
    /\ delivered' = delivered
    /\ tasks' = tasks
    /\ ev' = ev

returnsTo(i) ==
    /\ recvPc = "idle"
    /\ incoming.type = "return"
    /\ readOk(incoming)
    /\ questions[incoming.id] = i
    /\ nTaken' = nTaken + 1

\* C32: a Return for a question already flagged finished is consumed in one
\* step of receive: the message is released, the entry leaves the table, the
\* promise is left as it is, no goroutine that resolves and sends a Finish is
\* forked, nothing is embargoed or enqueued, and receive is ready for the
\* next message; if the Finish of the cancelation is not out yet, a goroutine
\* of its own waits for it and the id stays allocated. A Return whose id has
\* no entry releases the message and makes receive return an error.
C32_CanceledReturnConsumed ==
    /\ [][\A i \in QObj : (returnsTo(i) /\ q[i].finished) =>
             /\ msgReleases' = Append(msgReleases, incoming.seq)
             /\ questions' = [questions EXCEPT ![incoming.id] = 0]
             /\ q'[i].p = q[i].p /\ q'[i].settled = q[i].settled
             /\ q[i].ret = "none" /\ q'[i].ret = "none"
             /\ ~q'[i].release /\ q'[i].released = 0
             /\ UNCHANGED <<embVars, pr, sendq, nextSeq, tasks, ev>>
             /\ recvPc' = "idle"
             /\ IF q[i].finishMsgSend
                THEN /\ q'[i].wait = "none"
                     /\ questionID' = IF q[i].finishSent
                                       THEN idgenRemove(questionID, incoming.id)
                                       ELSE questionID
                ELSE /\ q'[i].wait = "wait"
                     /\ questionID' = questionID]_vars
    /\ [][returnsTo(0) =>
             /\ msgReleases' = Append(msgReleases, incoming.seq)
             /\ recvPc' = "done"
             /\ gErr' # "none"
             /\ gErr = "none" => gErr' = "questionNotFound"
             /\ UNCHANGED <<questVars, embVars, sendq>>]_vars
    /\ [](\A i \in QObj : q[i].wait # "none" => q[i].ret = "none")

\* the Return of a canceled question came before its Finish was out, the
\* goroutine forked for it has seen the Finish out, and a second Return with
\* the same id has failed the connection
C32_Witness ==
    \E i \in QObj :
       /\ q[i].finished
       /\ q[i].gotReturn
       /\ q[i].wait = "done"
       /\ questions[q[i].id] = 0
       /\ gErr = "questionNotFound"
       /\ msgReleases = <<1, 2>>

\* The peer sends what this vat does not handle: messages of unknown kinds,
\* Calls whose results are to go elsewhere, Disembargoes with a context of
\* level 3, and unimplemented messages; the application bootstraps meanwhile.
UnhandledMsgs ==
    {[NoMsg EXCEPT !.type = t] : t \in {"unknown", "unimplemented"}}
       \cup {[NoMsg EXCEPT !.type = "call", !.id = 1, !.sendResultsTo = "yourself"]}
       \cup {[NoMsg EXCEPT !.type = "disembargo", !.context = "accept"]}

readUnhandled == \E m \in UnhandledMsgs : reader(m, MaxInN)

NextN ==
    \/ Bootstrap(MaxBootE)
    \/ handleCancel({FALSE})
    \/ readUnhandled
    \/ receiveStop
    \/ receiveUnimplemented
    \/ receiveDefaultOf(BOOLEAN)
    \/ receiveDefaultSendTx
    \/ handleCall
    \/ handleCallSendTx
    \/ handleDisembargo
    \/ sendTake
    \/ sendOnSent
    \/ sendStop
    \/ shutdown
    \/ closer

SpecN == Init /\ [][NextN]_vars

\* the unimplemented reply to the message m that receive is handling
echo(m) ==
    IF m.type = "call" THEN [kind |-> "unimplementedCall", q |-> 0, seq |-> nextSeq']
    ELSE [kind |-> "unimplemented", q |-> 0, seq |-> nextSeq', built |-> m.exc]

\* C33: when the handler of a message of an unknown kind or of a Call with
\* sendResultsTo other than caller returns, its unimplemented reply is at the
\* tail of the send queue, behind all that was in it; a Disembargo with
\* another context than the two loopbacks is answered likewise in the step
\* that takes it; the receive goroutine goes on in each case, and no table
\* changes. An unimplemented message changes neither the queue nor a table.
C33_UnhandledEchoed ==
    /\ [][(recvPc = "sendTx" /\ recvPc' # "sendTx") =>
             /\ sendq' = Append(sendq, echo(cur))
             /\ recvPc' = "idle"
             /\ gErr' = gErr
             /\ UNCHANGED <<questVars, ansVars, embVars>>]_vars
    /\ [][(disembargoes /\ incoming.perr = "none"
               /\ incoming.context \notin {"senderLoopback", "receiverLoopback"}) =>
             /\ sendq' = Append(sendq, [kind |-> "unimplementedDisembargo", q |-> 0,
                                          seq |-> nextSeq', msg |-> incoming.seq])
             /\ recvPc' = "idle"
             /\ gErr' = gErr
             /\ UNCHANGED <<questVars, ansVars, embVars>>]_vars
    /\ [][(recvPc = "idle" /\ incoming.type = "unimplemented" /\ nTaken' = nTaken + 1) =>
             /\ recvPc' = "idle"
             /\ gErr' = gErr
             /\ UNCHANGED <<sendq, nextSeq, wire, questVars, ansVars, embVars>>]_vars

\* how often the release of the inbound message n has run
releases(n) ==
    Cardinality({a \in 1..Len(msgReleases) : msgReleases[a] = n})
       + Cardinality({i \in QObj : q[i].msg = n /\ q[i].released > 0})

\* the handler of message n has returned, what it deferred included
handled(n) ==
    /\ n <= nTaken
    /\ recvPc \in {"idle", "done"} \/ cur.seq # n
    /\ recvPc # "rl" \/ n < nTaken

\* the release of message n is kept on the question it returned data to
retained(n) == \E i \in QObj : q[i].msg = n /\ q[i].release

\* someone still has the release of message n to call: the goroutine forked
\* for a Return, the onSent of a job not sent yet, or the callee of a Call
entrusted(n) ==
    \/ \E i \in QObj : q[i].msg = n /\ q[i].ret \in {"resolve", "reject"}
    \/ \E j \in {sendq[a] : a \in 1..Len(sendq)} \cup {sendCur.job} :
          /\ j.kind \in {"disembargo", "unimplementedDisembargo"}
          /\ j.kind = "disembargo" => j.context = "receiverLoopback"
          /\ j.msg = n
    \/ \E a \in 1..Len(delivered) : delivered[a].seq = n

\* C34: no inbound message is released twice, and once the handler of a
\* message has returned, the message has been released, unless its release is
\* kept on the question (a Return with data) or is still to be called by the
\* goroutine, the job or the callee it was given to; a message whose release
\* is kept on the question has not been released.
C34_ReleasedExactlyOnce ==
    \A n \in 1..nTaken :
       /\ releases(n) <= 1
       /\ retained(n) => releases(n) = 0
       /\ (handled(n) /\ ~retained(n) /\ ~entrusted(n)) => releases(n) = 1

\* The application bootstraps and closes, the peer returns: every goroutine
\* of the connection takes its steps.
readJob == \E m \in {r \in ReturnMsgs : r.id = 0} : reader(m, MaxInJ)

NextJ ==
    \/ Bootstrap(MaxBootE)
    \/ handleCancel({FALSE})
    \/ readJob
    \/ receiveStop
    \/ handleReturn
    \/ handleReturnWait
    \/ handleReturnResolve
    \/ handleReturnSend
    \/ sendTake
    \/ sendOnSent
    \/ sendStop
    \/ shutdown
    \/ closer

\* Weak fairness for the goroutines of the connection, the one that
\* handleReturn forks and shutdown included; the application and the peer
\* owe nothing.
FairJ ==
    /\ WF_vars(handleCancel({FALSE}))
    /\ WF_vars(receiveStop)
    /\ WF_vars(handleReturn)
    /\ WF_vars(handleReturnWait)
    /\ WF_vars(handleReturnResolve)
    /\ WF_vars(handleReturnSend)
    /\ WF_vars(sendTake)
    /\ WF_vars(sendOnSent)
    /\ WF_vars(sendStop)
    /\ WF_vars(shutdownStart(0))
    /\ \A c \in Callers : WF_vars(shutdownRun(c))
    /\ WF_vars(closer)

SpecJ == Init /\ [][NextJ]_vars /\ FairJ

\* job n was sent by the send goroutine or aborted by the drain, and its
\* onSent, if it has one, and its release have run
settled(n) ==
    /\ Len(jobs) >= n
    /\ jobs[n].sends + jobs[n].aborts = 1
    /\ jobs[n].releases = 1
    /\ jobs[n].kind \in {"bootstrap", "finish", "cancelFinish", "disembargo"}
          => jobs[n].onSents = 1

\* C35: every job that sendMessage has put on the send queue is eventually
\* sent or aborted, and its onSent and its release run.
C35_EveryJobSettled == \A n \in 1..MaxJobs : (Len(jobs) >= n) ~> settled(n)

\* Both sides bootstrap, the peer calls the bootstrap capability and
\* returns; the application closes the connection at any time.
ClosingMsgs ==
    {m \in BootstrapMsgs : m.id = 0} \cup {m \in CallMsgs : m.id = 1 /\ m.target = 0}
       \cup {[NoMsg EXCEPT !.type = "return"]}

readClosing ==
    \E m \in ClosingMsgs : (m.type = "bootstrap" => nIn = 0) /\ reader(m, MaxInW)

NextW ==
    \/ Bootstrap(MaxBootE)
    \/ handleCancel(BOOLEAN)
    \/ readClosing
    \/ receiveStop
    \/ handleBootstrap
    \/ handleCall
    \/ handleCallInstall
    \/ handleCallRecvCall
    \/ Return
    \/ handleReturn
    \/ handleReturnWait
    \/ handleReturnResolve
    \/ handleReturnSend
    \/ sendTake
    \/ sendOnSent
    \/ sendStop
    \/ shutdown
    \/ closer

\* Weak fairness for the goroutines of the connection and for the methods
\* of the application, which call their Returner; the peer owes nothing, and
\* the application need not cancel or close.
FairW ==
    /\ WF_vars(handleCancel({FALSE}))
    /\ WF_vars(receiveStop)
    /\ WF_vars(handleBootstrap)
    /\ WF_vars(handleCall)
    /\ WF_vars(handleCallInstall)
    /\ WF_vars(handleCallRecvCall)
    /\ WF_vars(Return)
    /\ WF_vars(handleReturn)
    /\ WF_vars(handleReturnWait)
    /\ WF_vars(handleReturnResolve)
    /\ WF_vars(handleReturnSend)
    /\ WF_vars(sendTake)
    /\ WF_vars(sendOnSent)
    /\ WF_vars(sendStop)
    /\ WF_vars(shutdownStart(0))
    /\ \A c \in Callers : WF_vars(shutdownRun(c))
    /\ WF_vars(closer)

SpecW == Init /\ [][NextW]_vars /\ FairW

\* the tasks that have been added to c.tasks and are not done: send and
\* receive, the watchers of the questions, and the calls that were
\* dispatched and have not returned
tasksRunning ==
    (IF sendPc = "done" THEN 0 ELSE 1) + (IF recvPc = "done" THEN 0 ELSE 1)
       + Cardinality({i \in QObj : q[i].hc = "wait"})
       + Cardinality({a \in AIds : answers[a].st = "live" /\ answers[a].cancel
                                      /\ ~answers[a].returnSent})

\* C36: c.tasks counts the tasks that are running, so it is never negative
\* and reaches zero when they are done; a call of Close, once it has begun,
\* returns, and once the connection is closing Done fires.
C36_ShutdownTerminates ==
    /\ [](tasks >= 0 /\ tasks = tasksRunning)
    /\ \A c \in Callers : (shPc[c] # "idle") ~> (shPc[c] = "returned")
    /\ closing ~> closed

\* Close has returned after a call of the peer was dispatched and returned
\* and the watcher of a question of the application ended
C36_Witness ==
    /\ \E c \in Callers \ {0} : shPc[c] = "returned"
    /\ closed
    /\ tasks = 0
    /\ delivered # <<>>
    /\ \E i \in QObj : q[i].hc = "done"


====
